---- MODULE Spec2Model ----
(***************************************************************************)
(* Entity resolution, Elo replay, starter selection and market blend of    *)
(* the NCAA baseball forecasting pipeline.                                 *)
(*                                                                         *)
(* Strings are sequences of one-character strings, so that the code's      *)
(* character-level operations (startswith, len, replace, split) are        *)
(* computed as the code computes them.  Inputs are ASCII: on ASCII the     *)
(* NFKD decomposition and the removal of combining marks in                *)
(* normalize_text change nothing.                                          *)
(*                                                                         *)
(* Real numbers are exact fixed-point integers: probabilities in           *)
(* thousandths, ratings in thousandths of a rating point.                  *)
(***************************************************************************)
EXTENDS Integers, Sequences, FiniteSets, TLC

VARIABLES
    \* ---- identity resolution (build_todays_starters.py, phase1.py)
    canonical,              \* the registry: a sequence of rows
    name_to_canonical,      \* alias table built by build_odds_name_to_canonical
    canonical_name_index,   \* built by build_canonical_name_index
    team_name,              \* the name being resolved
    res_starters,           \* result of resolve_team_name_to_canonical
    res_starters2,          \* result of a second run on the same inputs
    res_odds,               \* result of resolve_odds_teams (one side)
    \* ---- fit_elo (fit_phase1_elo.py)
    games,                  \* the input frame, in file order
    sorted_games,           \* after dropna + sort_values("date")
    elo_pc,                 \* "load" | "loop" | "done"
    row_i,                  \* index of the next row of the loop
    ratings,                \* canonical id -> rating (thousandths)
    n_games,                \* canonical id -> number of updates
    elo_log,                \* history: one record per processed row
    \* ---- build_todays_starters.main, one game
    game,                   \* the evidence available for the game
    st_pc,                  \* position in the tier ladder
    home_pick,
    away_pick,
    pick_log,               \* history: (tier, side, pick) for every assignment
    out_rows,               \* the rows of the output file
    \* ---- blend_with_market (pitcher_model.py)
    bl_in,                  \* [model, market, n]
    bl_out,                 \* "none" or [home, away] (in 1/BlendDen)
    \* ---- build_canonical_teams_2026.main
    ncaa,                   \* the NCAA list, in file order
    crosswalk,              \* the manual crosswalk file
    merged,                 \* the output frame
    out_csv,                \* the registry file on disk
    reg_pc,                 \* "start" | "merged" | "valid" | "done" | "abort"
    \* ---- project_game.main and run_phase1_odds_compare.main, one game
    pj_in,                  \* [ratings, home_id, away_id, neutral]
    pj_game,                \* project_game's (p_a, p_b), in thousandths
    pj_compare,             \* run_phase1_odds_compare's (p_home, p_away)
    \* ---- build_pitcher_ratings.main
    pitching_lines,         \* pitching_lines_espn.csv, in file order
    pr_pc,                  \* "start" | "done"
    pitcher_ratings,        \* group key -> [n_games, IP]
    team_pitcher_strength,  \* team -> [sp_ip, rp_ip]
    bullpen_workload,       \* (team, date) -> [ip_last_1d, ip_last_3d, pc_last_1d]
    \* ---- pitcher_model.get_sp_rating
    sp_in,                  \* [pitcher_espn_id, canonical_id, season, ratings, team_strength]
    sp_out,                 \* (ra9, expected_ip), in tenths
    \* ---- build_todays_starters.find_manual_row
    mr_game,                \* the game of the scoreboard
    manual_df,              \* the manual starters file, in file order
    mr_out,                 \* << >> (None) or << row >>
    mr_pc,                  \* "start" | "done"
    \* ---- run_today_with_starters.main
    args,                   \* the command line
    starters_csv,           \* todays_starters.csv, in file order
    batch_pc,               \* "start" | "loop" | "done"
    df_rows,                \* df after head(max_games)
    batch_i,                \* index of the next row of the loop
    n_total,
    n_ran,
    n_fail,
    cmd_log,                \* history: the commands run or skipped, in order
    exit_status,            \* main's return value
    \* ---- build_games_from_espn and the fit of its CSV
    espn_lines,             \* the lines of games_<season>.jsonl
    games_csv,              \* the rows written to games_espn.csv
    gm_pc,                  \* build, fit, done or no_games
    gm_fit,                 \* << >> or << what fit_elo computed >>
    \* ---- the two normalizers of build_todays_starters, applied twice
    nz_in,                  \* the input string
    nz_fn,                  \* the normalizer applied
    nz_once,                \* f(input)
    nz_twice,               \* f(f(input))
    nz_pc,                  \* start, once or twice
    \* ---- get_bullpen_workload on the built table
    wl_lines,               \* the pitching lines the table is built from
    wl_team,                \* canonical id of the side
    wl_date,                \* the date of the projected game
    wl_table,               \* bullpen_workload.csv, by (team, date)
    wl_out,                 \* (ip_last_1d, ip_last_3d) returned
    wl_pc,                  \* build, project or done
    \* ---- pitcher_adj_to_elo, called twice
    adj_args,               \* the arguments of the first call
    adj_how,                \* what the second call changes
    adj_step,               \* by how much, in tenths
    adj_first,              \* the first adjustment
    adj_second,             \* the second adjustment
    adj_pc,                 \* first, second or done
    \* ---- build_todays_starters.infer_probable_starter
    inf_starts,             \* the frame of starts
    inf_team_key,           \* the team asked for
    inf_game_day,           \* the target date
    inf_out,                \* the pick returned, NoPick for None
    inf_pc                  \* call or done

vars == << canonical, name_to_canonical, canonical_name_index, team_name,
           res_starters, res_starters2, res_odds, games, sorted_games, elo_pc,
           row_i, ratings, n_games, elo_log, game, st_pc, home_pick, away_pick,
           pick_log, out_rows, bl_in, bl_out, ncaa, crosswalk, merged, out_csv,
           reg_pc, pj_in, pj_game, pj_compare, pitching_lines, pr_pc,
           pitcher_ratings, team_pitcher_strength, bullpen_workload, sp_in,
           sp_out, mr_game, manual_df, mr_out, mr_pc, args, starters_csv,
           batch_pc, df_rows, batch_i, n_total, n_ran, n_fail, cmd_log,
           exit_status, espn_lines, games_csv, gm_pc, gm_fit, nz_in, nz_fn,
           nz_once, nz_twice, nz_pc, wl_lines, wl_team, wl_date, wl_table,
           wl_out, wl_pc, adj_args, adj_how, adj_step, adj_first, adj_second,
           adj_pc, inf_starts, inf_team_key, inf_game_day, inf_out, inf_pc >>

resolve_vars == << canonical, name_to_canonical, canonical_name_index,
                   team_name, res_starters, res_starters2, res_odds >>
elo_vars == << games, sorted_games, elo_pc, row_i, ratings, n_games, elo_log >>
starter_vars == << game, st_pc, home_pick, away_pick, pick_log, out_rows >>
blend_vars == << bl_in, bl_out >>
registry_vars == << ncaa, crosswalk, merged, out_csv, reg_pc >>
project_vars == << pj_in, pj_game, pj_compare >>
pitchers_vars == << pitching_lines, pr_pc, pitcher_ratings,
                    team_pitcher_strength, bullpen_workload >>
sprating_vars == << sp_in, sp_out >>
manual_vars == << mr_game, manual_df, mr_out, mr_pc >>
batch_vars == << args, starters_csv, batch_pc, df_rows, batch_i, n_total,
                 n_ran, n_fail, cmd_log, exit_status >>
games_vars == << espn_lines, games_csv, gm_pc, gm_fit >>
normalize_vars == << nz_in, nz_fn, nz_once, nz_twice, nz_pc >>
workload_vars == << wl_lines, wl_team, wl_date, wl_table, wl_out, wl_pc >>
adjust_vars == << adj_args, adj_how, adj_step, adj_first, adj_second, adj_pc >>
infer_vars == << inf_starts, inf_team_key, inf_game_day, inf_out, inf_pc >>

\* what every action of one program leaves alone: the other programs' variables
others_resolve ==
    << elo_vars, starter_vars, blend_vars, registry_vars, project_vars,
       pitchers_vars, sprating_vars, manual_vars, batch_vars, games_vars,
       normalize_vars, workload_vars, adjust_vars, infer_vars >>
others_elo ==
    << resolve_vars, starter_vars, blend_vars, registry_vars, project_vars,
       pitchers_vars, sprating_vars, manual_vars, batch_vars, games_vars,
       normalize_vars, workload_vars, adjust_vars, infer_vars >>
others_starter ==
    << resolve_vars, elo_vars, blend_vars, registry_vars, project_vars,
       pitchers_vars, sprating_vars, manual_vars, batch_vars, games_vars,
       normalize_vars, workload_vars, adjust_vars, infer_vars >>
others_blend ==
    << resolve_vars, elo_vars, starter_vars, registry_vars, project_vars,
       pitchers_vars, sprating_vars, manual_vars, batch_vars, games_vars,
       normalize_vars, workload_vars, adjust_vars, infer_vars >>
others_registry ==
    << resolve_vars, elo_vars, starter_vars, blend_vars, project_vars,
       pitchers_vars, sprating_vars, manual_vars, batch_vars, games_vars,
       normalize_vars, workload_vars, adjust_vars, infer_vars >>
others_project ==
    << resolve_vars, elo_vars, starter_vars, blend_vars, registry_vars,
       pitchers_vars, sprating_vars, manual_vars, batch_vars, games_vars,
       normalize_vars, workload_vars, adjust_vars, infer_vars >>
others_pitchers ==
    << resolve_vars, elo_vars, starter_vars, blend_vars, registry_vars,
       project_vars, sprating_vars, manual_vars, batch_vars, games_vars,
       normalize_vars, workload_vars, adjust_vars, infer_vars >>
others_sprating ==
    << resolve_vars, elo_vars, starter_vars, blend_vars, registry_vars,
       project_vars, pitchers_vars, manual_vars, batch_vars, games_vars,
       normalize_vars, workload_vars, adjust_vars, infer_vars >>
others_manual ==
    << resolve_vars, elo_vars, starter_vars, blend_vars, registry_vars,
       project_vars, pitchers_vars, sprating_vars, batch_vars, games_vars,
       normalize_vars, workload_vars, adjust_vars, infer_vars >>
others_batch ==
    << resolve_vars, elo_vars, starter_vars, blend_vars, registry_vars,
       project_vars, pitchers_vars, sprating_vars, manual_vars, games_vars,
       normalize_vars, workload_vars, adjust_vars, infer_vars >>
others_games ==
    << resolve_vars, elo_vars, starter_vars, blend_vars, registry_vars,
       project_vars, pitchers_vars, sprating_vars, manual_vars, batch_vars,
       normalize_vars, workload_vars, adjust_vars, infer_vars >>
others_normalize ==
    << resolve_vars, elo_vars, starter_vars, blend_vars, registry_vars,
       project_vars, pitchers_vars, sprating_vars, manual_vars, batch_vars,
       games_vars, workload_vars, adjust_vars, infer_vars >>
others_workload ==
    << resolve_vars, elo_vars, starter_vars, blend_vars, registry_vars,
       project_vars, pitchers_vars, sprating_vars, manual_vars, batch_vars,
       games_vars, normalize_vars, adjust_vars, infer_vars >>
others_adjust ==
    << resolve_vars, elo_vars, starter_vars, blend_vars, registry_vars,
       project_vars, pitchers_vars, sprating_vars, manual_vars, batch_vars,
       games_vars, normalize_vars, workload_vars, infer_vars >>
others_infer ==
    << resolve_vars, elo_vars, starter_vars, blend_vars, registry_vars,
       project_vars, pitchers_vars, sprating_vars, manual_vars, batch_vars,
       games_vars, normalize_vars, workload_vars, adjust_vars >>
















-----------------------------------------------------------------------------
(* Python str operations on character sequences *)

SPACE == " "

LowerChars == << "a","b","c","d","e","f","g","h","i","j","k","l","m",
                 "n","o","p","q","r","s","t","u","v","w","x","y","z" >>
UpperChars == << "A","B","C","D","E","F","G","H","I","J","K","L","M",
                 "N","O","P","Q","R","S","T","U","V","W","X","Y","Z" >>
Digits == { "0","1","2","3","4","5","6","7","8","9" }
LowerSet == { LowerChars[i] : i \in 1..26 }
UpperSet == { UpperChars[i] : i \in 1..26 }

\* str.lower() on one character
LowerChar(c) ==
    IF c \in UpperSet
    THEN LowerChars[CHOOSE i \in 1..26 : UpperChars[i] = c]
    ELSE c

\* str.lower()
Lower(s) == [i \in 1..Len(s) |-> LowerChar(s[i])]

\* str.startswith
StartsWith(s, p) == Len(p) <= Len(s) /\ SubSeq(s, 1, Len(p)) = p

Drop(s, k) == SubSeq(s, k + 1, Len(s))

\* str.replace(old, new): left to right, non-overlapping
RECURSIVE Replace(_, _, _)
Replace(s, old, new) ==
    IF s = << >> THEN << >>
    ELSE IF StartsWith(s, old) THEN new \o Replace(Drop(s, Len(old)), old, new)
    ELSE << Head(s) >> \o Replace(Tail(s), old, new)

\* str.split(): maximal runs of non-space characters
RECURSIVE SplitAcc(_, _, _)
SplitAcc(s, cur, acc) ==
    IF s = << >> THEN (IF cur = << >> THEN acc ELSE Append(acc, cur))
    ELSE IF Head(s) = SPACE
         THEN SplitAcc(Tail(s), << >>, IF cur = << >> THEN acc ELSE Append(acc, cur))
         ELSE SplitAcc(Tail(s), Append(cur, Head(s)), acc)
Split(s) == SplitAcc(s, << >>, << >>)

\* " ".join(tokens)
RECURSIVE Join(_)
Join(toks) ==
    IF toks = << >> THEN << >>
    ELSE IF Len(toks) = 1 THEN toks[1]
    ELSE toks[1] \o << SPACE >> \o Join(Tail(toks))

\* list(seq) with its last element dropped: toks[:-1]
Front(toks) == SubSeq(toks, 1, Len(toks) - 1)

Range(f) == { f[i] : i \in DOMAIN f }

-----------------------------------------------------------------------------
(* Name normalizers *)

\* html.unescape, for the two entities the registry files contain
RECURSIVE HtmlUnescape(_)
HtmlUnescape(s) ==
    IF s = << >> THEN << >>
    ELSE IF StartsWith(s, << "&","a","m","p",";" >>)
         THEN << "&" >> \o HtmlUnescape(Drop(s, 5))
    ELSE IF StartsWith(s, << "&","#","3","9",";" >>)
         THEN << "'" >> \o HtmlUnescape(Drop(s, 5))
    ELSE << Head(s) >> \o HtmlUnescape(Tail(s))

\* _PUNCT_RE.sub(" ", s): every character outside [a-z0-9 ] becomes a space
KeptChars == LowerSet \cup Digits \cup { SPACE }
PunctToSpace(s) == [i \in 1..Len(s) |-> IF s[i] \in KeptChars THEN s[i] ELSE SPACE]

\* build_todays_starters.normalize_text
normalize_text(s) ==
    IF s = << >> THEN << >>
    ELSE LET s1 == HtmlUnescape(s)
             s2 == Replace(Lower(s1), << "&" >>, << SPACE,"a","n","d",SPACE >>)
             s3 == Replace(s2, << "s","t","." >>, << "s","t" >>)
             s4 == PunctToSpace(s3)
         IN  Join(Split(s4))

suffix_words ==
    { <<"b","u","l","l","d","o","g","s">>,
      <<"w","i","l","d","c","a","t","s">>,
      <<"t","i","g","e","r","s">>,
      <<"r","a","z","o","r","b","a","c","k","s">>,
      <<"l","o","n","g","h","o","r","n","s">>,
      <<"a","g","g","i","e","s">>,
      <<"c","a","r","d","i","n","a","l","s">>,
      <<"t","r","o","j","a","n","s">>,
      <<"w","a","r","r","i","o","r","s">>,
      <<"s","p","a","r","t","a","n","s">>,
      <<"p","a","n","t","h","e","r","s">>,
      <<"b","e","a","r","s">>,
      <<"k","n","i","g","h","t","s">>,
      <<"t","i","t","a","n","s">>,
      <<"h","u","s","k","i","e","s">>,
      <<"h","a","w","k","s">>,
      <<"e","a","g","l","e","s">>,
      <<"o","w","l","s">>,
      <<"p","i","r","a","t","e","s">>,
      <<"r","a","m","s">>,
      <<"l","i","o","n","s">>,
      <<"b","o","b","c","a","t","s">>,
      <<"m","u","s","t","a","n","g","s">>,
      <<"r","e","b","e","l","s">>,
      <<"g","a","t","o","r","s">>,
      <<"s","e","m","i","n","o","l","e","s">>,
      <<"v","o","l","u","n","t","e","e","r","s">>,
      <<"b","l","u","e","j","a","y","s">>,
      <<"d","o","n","s">>,
      <<"b","r","o","n","c","o","s">>,
      <<"v","i","k","i","n","g","s">>,
      <<"b","l","a","z","e","r","s">>,
      <<"m","o","u","n","t","a","i","n","e","e","r","s">>,
      <<"c","o","l","o","n","i","a","l","s">>,
      <<"c","o","u","g","a","r","s">>,
      <<"g","a","e","l","s">>,
      <<"t","e","r","r","i","e","r","s">>,
      <<"b","e","a","r","c","a","t","s">> }

token_alts ==
    << <<<<"s","t">>, <<<<"s","t","a","t","e">>, <<"s","a","i","n","t">>>>>>,
       <<<<"s","t","a","t","e">>, <<<<"s","t">>>>>>,
       <<<<"s","a","i","n","t">>, <<<<"s","t">>>>>>,
       <<<<"f","l","a">>, <<<<"f","l","o","r","i","d","a">>>>>>,
       <<<<"g","a">>, <<<<"g","e","o","r","g","i","a">>>>>>,
       <<<<"k","y">>, <<<<"k","e","n","t","u","c","k","y">>>>>>,
       <<<<"i","n","t","l">>, <<<<"i","n","t","e","r","n","a","t","i","o","n","a","l">>>>>>,
       <<<<"f","t">>, <<<<"f","o","r","t">>>>>>,
       <<<<"m","t">>, <<<<"m","o","u","n","t">>>>>> >>

acronym_alts ==
    << <<<<"f","i","u">>, <<<<"f","l","o","r","i","d","a"," ","i","n","t","e","r","n","a","t","i","o","n","a","l">>>>>>,
       <<<<"f","g","c","u">>, <<<<"f","l","o","r","i","d","a"," ","g","u","l","f"," ","c","o","a","s","t">>>>>>,
       <<<<"u","c","f">>, <<<<"c","e","n","t","r","a","l"," ","f","l","o","r","i","d","a">>>>>>,
       <<<<"u","i","c">>, <<<<"i","l","l","i","n","o","i","s"," ","c","h","i","c","a","g","o">>>>>>,
       <<<<"u","m","b","c">>, <<<<"m","a","r","y","l","a","n","d"," ","b","a","l","t","i","m","o","r","e"," ","c","o","u","n","t","y">>>>>>,
       <<<<"u","m","e","s">>, <<<<"m","a","r","y","l","a","n","d"," ","e","a","s","t","e","r","n"," ","s","h","o","r","e">>>>>>,
       <<<<"u","n","c","w">>, <<<<"n","o","r","t","h"," ","c","a","r","o","l","i","n","a"," ","w","i","l","m","i","n","g","t","o","n">>>>>>,
       <<<<"u","t","s","a">>, <<<<"t","e","x","a","s"," ","s","a","n"," ","a","n","t","o","n","i","o">>>>>>,
       <<<<"u","t","r","g","v">>, <<<<"t","e","x","a","s"," ","r","i","o"," ","g","r","a","n","d","e"," ","v","a","l","l","e","y">>>>>>,
       <<<<"d","b","u">>, <<<<"d","a","l","l","a","s"," ","b","a","p","t","i","s","t">>>>>>,
       <<<<"e","t","s","u">>, <<<<"e","a","s","t"," ","t","e","n","n","e","s","s","e","e"," ","s","t","a","t","e">>>>>>,
       <<<<"s","i","u","e">>, <<<<"s","o","u","t","h","e","r","n"," ","i","l","l","i","n","o","i","s"," ","e","d","w","a","r","d","s","v","i","l","l","e">>>>>>,
       <<<<"s","f","a">>, <<<<"s","t","e","p","h","e","n"," ","f"," ","a","u","s","t","i","n">>>>>>,
       <<<<"c","s","u","n">>, <<<<"c","a","l"," ","s","t","a","t","e"," ","n","o","r","t","h","r","i","d","g","e">>>>>>,
       <<<<"l","i","u">>, <<<<"l","o","n","g"," ","i","s","l","a","n","d">>>>>>,
       <<<<"n","j","i","t">>, <<<<"n","e","w"," ","j","e","r","s","e","y"," ","i","n","s","t","i","t","u","t","e"," ","o","f"," ","t","e","c","h","n","o","l","o","g","y">>>>>>,
       <<<<"u","s","c">>, <<<<"s","o","u","t","h"," ","c","a","r","o","l","i","n","a">>, <<"s","o","u","t","h","e","r","n"," ","c","a","l","i","f","o","r","n","i","a">>>>>> >>

\* build_todays_starters.normalize_team_name
strip_suffix(n) ==
    LET parts == Split(n)
    IN  IF Len(parts) >= 2 /\ parts[Len(parts)] \in suffix_words
        THEN Join(Front(parts))
        ELSE n

normalize_team_name(s) == strip_suffix(normalize_text(s))

\* phase1._normalize_for_match
normalize_for_match(s) ==
    LET s1 == Replace(s, << "&","a","m","p",";" >>, << "&" >>)
        s2 == Replace(s1, << "&","#","3","9",";" >>, << "'" >>)
    IN  Join(Split(Lower(s2)))

\* dict.get(tok, []) on one of the two alternative tables
AltsOf(table, tok) ==
    IF \E k \in DOMAIN table : table[k][1] = tok
    THEN table[CHOOSE k \in DOMAIN table : table[k][1] = tok][2]
    ELSE << >>

\* build_todays_starters._team_forms_from_norm: the set of variants
team_forms_from_norm(norm_name) ==
    LET tokens == Split(norm_name)
        Sub(i, alt) == Join(SubSeq(tokens, 1, i - 1) \o Split(alt)
                            \o SubSeq(tokens, i + 1, Len(tokens)))
        Alts(tok) == Range(AltsOf(token_alts, tok)) \cup Range(AltsOf(acronym_alts, tok))
        forms == { norm_name }
                 \cup UNION { { Sub(i, alt) : alt \in Alts(tokens[i]) } : i \in 1..Len(tokens) }
    IN  IF tokens = << >> THEN forms ELSE { f \in forms : f # << >> }

-----------------------------------------------------------------------------
(* Registry, alias table and name-variant index *)

NONE == << >>       \* Python's None as a resolver result

Row(cid, tid, tname, alias) ==
    [canonical_id |-> cid, ncaa_teams_id |-> tid, team_name |-> tname,
     odds_api_name |-> alias]

\* phase1.build_odds_name_to_canonical: a later row overwrites an earlier one
build_odds_name_to_canonical(reg) ==
    LET keys == { normalize_for_match(reg[i].odds_api_name) :
                    i \in { j \in DOMAIN reg : reg[j].odds_api_name # << >> } }
        last(k) == CHOOSE i \in DOMAIN reg :
                     /\ reg[i].odds_api_name # << >>
                     /\ normalize_for_match(reg[i].odds_api_name) = k
                     /\ \A j \in DOMAIN reg :
                          (reg[j].odds_api_name # << >>
                           /\ normalize_for_match(reg[j].odds_api_name) = k) => j <= i
    IN  [k \in keys |-> << reg[last(k)].canonical_id, reg[last(k)].ncaa_teams_id >>]

\* one entry of the index: (canonical id, ncaa id, team name)
IndexEntry(r) == << r.canonical_id, r.ncaa_teams_id, r.team_name >>

\* build_todays_starters.build_canonical_name_index: rows in registry order
build_canonical_name_index(reg) ==
    LET usable == SelectSeq(reg, LAMBDA r : r.canonical_id # "")
        forms == [i \in DOMAIN usable |->
                    team_forms_from_norm(normalize_team_name(usable[i].team_name))]
        keys == UNION { forms[i] : i \in DOMAIN usable }
        at(f) == SelectSeq([i \in DOMAIN usable |-> i], LAMBDA i : f \in forms[i])
    IN  [f \in keys |-> [k \in DOMAIN at(f) |-> IndexEntry(usable[at(f)[k]])]]

\* dict.get(form, [])
IndexGet(idx, form) == IF form \in DOMAIN idx THEN idx[form] ELSE << >>

-----------------------------------------------------------------------------
(* phase1.resolve_odds_teams.resolve_one *)

\* sorted(rows, key=-len(team_name)): Python's sort is stable
RECURSIVE InsertByLen(_, _)
InsertByLen(r, out) ==
    IF out = << >> THEN << r >>
    ELSE IF Len(Head(out).team_name) < Len(r.team_name)
         THEN << r >> \o out
         ELSE << Head(out) >> \o InsertByLen(r, Tail(out))

RECURSIVE SortByLenDesc(_)
SortByLenDesc(rows) ==
    IF rows = << >> THEN << >>
    ELSE InsertByLen(rows[Len(rows)], SortByLenDesc(Front(rows)))

\* the two prefix tests of the loop body, for one registry row
PrefixHit(n, r) ==
    LET norm_name == normalize_for_match(r.team_name)
    IN  \/ StartsWith(n, norm_name \o << SPACE >>)
        \/ n = norm_name
        \/ (StartsWith(norm_name, n) /\ Len(n) >= Len(norm_name) - 2)

resolve_one(odds_name, reg, n2c) ==
    LET n == normalize_for_match(odds_name)
        rows_sorted == SortByLenDesc(SelectSeq(reg, LAMBDA r : r.team_name # << >>))
        hits == { i \in DOMAIN rows_sorted : PrefixHit(n, rows_sorted[i]) }
        first == CHOOSE i \in hits : \A j \in hits : i <= j
    IN  IF n \in DOMAIN n2c THEN n2c[n]
        ELSE IF hits = {} THEN NONE
        ELSE << rows_sorted[first].canonical_id, rows_sorted[first].ncaa_teams_id >>

-----------------------------------------------------------------------------
(* build_todays_starters.resolve_team_name_to_canonical *)

\* every order in which Python may enumerate a set of strings
Orders(S) ==
    { o \in [1..Cardinality(S) -> S] : \A i, j \in DOMAIN o : o[i] = o[j] => i = j }

\* cand.extend(index.get(form, [])) for form in the enumeration order
RECURSIVE Candidates(_, _)
Candidates(idx, order) ==
    IF order = << >> THEN << >>
    ELSE IndexGet(idx, Head(order)) \o Candidates(idx, Tail(order))

\* by_cid[c[0]] = c; list(by_cid.values()): one entry per id, at the place of
\* the id's first occurrence, holding its last occurrence
DedupByCid(cand) ==
    LET firsts == SelectSeq([i \in DOMAIN cand |-> i],
                            LAMBDA i : \A j \in 1..(i - 1) : cand[j][1] # cand[i][1])
        lastOf(cid) == CHOOSE i \in DOMAIN cand :
                         cand[i][1] = cid /\ \A j \in DOMAIN cand : cand[j][1] = cid => j <= i
    IN  [k \in DOMAIN firsts |-> cand[lastOf(cand[firsts[k]][1])]]

\* sorted(cand, key=lambda x: -len(normalize_team_name(x[2])))[0]: the first
\* candidate, in list order, among those with the longest normalized name
LongestFirst(cand) ==
    LET len == [i \in DOMAIN cand |-> Len(normalize_team_name(cand[i][3]))]
        best == CHOOSE i \in DOMAIN cand :
                  /\ \A j \in DOMAIN cand : len[j] <= len[i]
                  /\ \A j \in 1..(i - 1) : len[j] < len[i]
    IN  cand[best]

\* the while loop that peels trailing tokens; only a single candidate returns
RECURSIVE PeelLoop(_, _)
PeelLoop(toks, idx) ==
    IF Len(toks) <= 1 THEN NONE
    ELSE LET t == Front(toks)
             forms == team_forms_from_norm(Join(t))
             cand_trim == DedupByCid(Candidates(idx, CHOOSE o \in Orders(forms) : TRUE))
         IN  IF Len(cand_trim) = 1 THEN << cand_trim[1][1], cand_trim[1][2] >>
             ELSE PeelLoop(t, idx)

\* lines 216-229: the odds-style fallback with the prefix-only rejection
OddsFallback(name, n, reg, n2c) ==
    LET t == resolve_one(name, reg, n2c)
        rows == SelectSeq(reg, LAMBDA r : r.canonical_id = t[1])
        c_norm == normalize_team_name(rows[1].team_name)
    IN  IF t = NONE THEN NONE
        ELSE IF rows = << >> THEN t
        ELSE IF /\ c_norm # << >>
                /\ StartsWith(n, c_norm \o << SPACE >>)
                /\ Len(Split(n)) > Len(Split(c_norm))
             THEN NONE
        ELSE t

\* order: the order in which the set of forms of the full name is enumerated
resolve_team_name_to_canonical(name, reg, n2c, idx, order) ==
    LET n == normalize_team_name(name)
        cand == DedupByCid(Candidates(idx, order))
        peeled == PeelLoop(Split(n), idx)
    IN  IF n # << >> /\ Len(cand) = 1 THEN << cand[1][1], cand[1][2] >>
        ELSE IF n # << >> /\ Len(cand) > 1
             THEN << LongestFirst(cand)[1], LongestFirst(cand)[2] >>
        ELSE IF n # << >> /\ peeled # NONE THEN peeled
        ELSE OddsFallback(name, n, reg, n2c)

-----------------------------------------------------------------------------
(* Inputs of the resolver: a pool of registry rows and of names *)

N_FloridaInternational == <<"F","l","o","r","i","d","a"," ","I","n","t","e","r","n","a","t","i","o","n","a","l">>
N_FloridaIntlPanthers == <<"F","l","o","r","i","d","a"," ","I","n","t","l"," ","P","a","n","t","h","e","r","s">>
N_KentStDot == <<"K","e","n","t"," ","S","t",".">>
N_KentSt == <<"K","e","n","t"," ","S","t">>
N_USC == <<"U","S","C">>
N_FloridaGators == <<"F","l","o","r","i","d","a"," ","G","a","t","o","r","s">>
N_KentStateGoldenFlashes == <<"K","e","n","t"," ","S","t","a","t","e"," ","G","o","l","d","e","n"," ","F","l","a","s","h","e","s">>
N_fiu == <<"f","i","u">>

TeamPool ==
    << Row("FLA", 1, <<"F","l","o","r","i","d","a">>, << >>),
       Row("FIU", 2, <<"F","l","o","r","i","d","a"," ","I","n","t","e","r","n","a","t","i","o","n","a","l">>, << >>),
       Row("KENT", 3, <<"K","e","n","t">>, << >>),
       Row("KST", 4, <<"K","e","n","t"," ","S","t",".">>, << >>),
       Row("KSTATE", 5, <<"K","e","n","t"," ","S","t","a","t","e">>, << >>),
       Row("KSAINT", 6, <<"K","e","n","t"," ","S","a","i","n","t">>, << >>),
       Row("SC", 7, <<"S","o","u","t","h"," ","C","a","r","o","l","i","n","a">>, <<"U","S","C">>),
       Row("CAL", 8, <<"S","o","u","t","h","e","r","n"," ","C","a","l","i","f","o","r","n","i","a">>, << >>),
       Row("FLG", 9, <<"F","l","o","r","i","d","a"," ","G","a","t","o","r","s">>, << >>) >>

NamePool ==
    { N_FloridaInternational, N_FloridaIntlPanthers, N_KentStDot, N_KentSt, N_USC, N_FloridaGators, N_KentStateGoldenFlashes, N_fiu }

MaxTeams == 3       \* rows in a registry

\* registries: up to MaxTeams distinct rows of the pool, in any file order
Registries ==
    UNION { { [i \in 1..k |-> TeamPool[o[i]]] :
                o \in { f \in [1..k -> DOMAIN TeamPool] :
                          \A i, j \in 1..k : f[i] = f[j] => i = j } } :
            k \in 1..MaxTeams }

PENDING == << "pending" >>

InitResolve ==
    /\ canonical \in Registries
    /\ name_to_canonical = build_odds_name_to_canonical(canonical)
    /\ canonical_name_index = build_canonical_name_index(canonical)
    /\ team_name \in NamePool
    /\ res_starters = PENDING
    /\ res_starters2 = PENDING
    /\ res_odds = PENDING

\* a second family of inputs: teams whose names differ by a synonym variant,
\* by at most two trailing characters or by a trailing word, the names of
\* those teams and one of them followed by its mascot
N_UNC == <<"U","N","C">>
N_UNCW == <<"U","N","C","W">>

ExactPool ==
    << TeamPool[3], TeamPool[4], TeamPool[5], Row("UNC", 10, N_UNC, << >>),
       Row("UNCW", 11, N_UNCW, << >>) >>

ExactNames ==
    { N_KentSt, N_KentStDot, TeamPool[5].team_name, N_UNC, N_UNCW,
      N_KentStateGoldenFlashes }

ExactRegistries ==
    UNION { { [i \in 1..k |-> ExactPool[o[i]]] :
                o \in { f \in [1..k -> DOMAIN ExactPool] :
                          \A i, j \in 1..k : f[i] = f[j] => i = j } } :
            k \in 1..MaxTeams }

InitResolveExact ==
    /\ canonical \in ExactRegistries
    /\ name_to_canonical = build_odds_name_to_canonical(canonical)
    /\ canonical_name_index = build_canonical_name_index(canonical)
    /\ team_name \in ExactNames
    /\ res_starters = PENDING
    /\ res_starters2 = PENDING
    /\ res_odds = PENDING

\* what resolve_team_name_to_canonical can return for the name: one result
\* for each order in which the interpreter may enumerate the set of forms
resolve_outcomes ==
    { resolve_team_name_to_canonical(
          team_name, canonical, name_to_canonical, canonical_name_index, order) :
        order \in Orders(team_forms_from_norm(normalize_team_name(team_name))) }

\* build_game_list calls resolve_team_name_to_canonical for a scoreboard name
ResolveStarters ==
    /\ res_starters = PENDING
    /\ res_starters' \in resolve_outcomes
    /\ UNCHANGED << canonical, name_to_canonical, canonical_name_index, team_name,
                    res_starters2, res_odds >>
    /\ UNCHANGED others_resolve

\* the same call in another run of the script (another interpreter process)
ResolveStartersAgain ==
    /\ res_starters2 = PENDING
    /\ res_starters2' \in resolve_outcomes
    /\ UNCHANGED << canonical, name_to_canonical, canonical_name_index, team_name,
                    res_starters, res_odds >>
    /\ UNCHANGED others_resolve

\* build_games_from_espn / project_game call resolve_odds_teams
ResolveOdds ==
    /\ res_odds = PENDING
    /\ res_odds' = resolve_one(team_name, canonical, name_to_canonical)
    /\ UNCHANGED << canonical, name_to_canonical, canonical_name_index, team_name,
                    res_starters, res_starters2 >>
    /\ UNCHANGED others_resolve

-----------------------------------------------------------------------------
(* fit_phase1_elo.py *)

DEFAULT_K == 32
DEFAULT_INITIAL == 1500
DEFAULT_HOME_ADVANTAGE == 30

\* fixed point: a rating r is held as r * Milli, a probability p as p * Milli
Milli == 10 * 10 * 10

\* 1000 / (1 + 10^(x/400)) for x = 0, 10, 20, ..., 800 rating points, rounded
ExpectedTable ==
    << 500, 486, 471, 457, 443, 429, 415, 401, 387,
       373, 360, 347, 334, 321, 309, 297, 285, 273,
       262, 251, 240, 230, 220, 210, 201, 192, 183,
       174, 166, 159, 151, 144, 137, 130, 124, 118,
       112, 106, 101, 96, 91, 86, 82, 78, 74,
       70, 66, 63, 59, 56, 53, 50, 48, 45,
       43, 40, 38, 36, 34, 32, 31, 29, 27,
       26, 25, 23, 22, 21, 20, 18, 17, 17,
       16, 15, 14, 13, 12, 12, 11, 10, 10 >>

Abs(x) == IF x < 0 THEN -x ELSE x

\* elo_expected: 1 / (1 + 10 ** ((away - (home + adv)) / 400)), in thousandths;
\* the exponent is rounded to the nearest 10 rating points and capped at 800
elo_expected(home_rating, away_rating, home_adv) ==
    LET x == away_rating - (home_rating + home_adv)
        k == (Abs(x) + 5 * Milli) \div (10 * Milli)
        t == ExpectedTable[(IF k > 80 THEN 80 ELSE k) + 1]
    IN  IF x >= 0 THEN t ELSE Milli - t

NaN == ""           \* a missing canonical id (an empty CSV field)

\* games.dropna(subset=["canonical_home_id", "canonical_away_id"])
dropna(rows) ==
    SelectSeq(rows, LAMBDA g : g.canonical_home_id # NaN /\ g.canonical_away_id # NaN)

\* the frame left in the order of the file (fit_elo without its sort_values)
frame_order(rows) == { rows }

\* games.sort_values("date"): the default sort is not stable, so every
\* arrangement of the rows with non-decreasing dates is a possible result
sort_values_date(rows) ==
    LET perms == { o \in [DOMAIN rows -> DOMAIN rows] :
                     \A i, j \in DOMAIN rows : o[i] = o[j] => i = j }
    IN  { [i \in DOMAIN rows |-> rows[o[i]]] :
            o \in { q \in perms :
                      \A i, j \in DOMAIN rows :
                          i < j => rows[q[i]].date <= rows[q[j]].date } }

\* dict assignment d[k] = v
DictSet(d, k, v) == [x \in (DOMAIN d) \cup { k } |-> IF x = k THEN v ELSE d[x]]

EmptyDict == [x \in {} |-> 0]

\* get_rating's side effect on (ratings, n_games): first reference initialises
get_rating_ratings(rt, cid, initial) ==
    IF cid \in DOMAIN rt THEN rt ELSE DictSet(rt, cid, initial)
get_rating_n_games(rt, ng, cid) ==
    IF cid \in DOMAIN rt THEN ng ELSE DictSet(ng, cid, 0)

\* one iteration of the loop of fit_elo (lines 50-61): the new (ratings, n_games)
elo_update(rt, ng, row, k, initial, home_advantage) ==
    LET home_id == row.canonical_home_id
        away_id == row.canonical_away_id
        rt1 == get_rating_ratings(rt, home_id, initial)
        ng1 == get_rating_n_games(rt, ng, home_id)
        r_h == rt1[home_id]
        rt2 == get_rating_ratings(rt1, away_id, initial)
        ng2 == get_rating_n_games(rt1, ng1, away_id)
        r_a == rt2[away_id]
        exp_h == elo_expected(r_h, r_a, home_advantage)
        actual_h == row.winner_home * Milli
        rt3 == DictSet(rt2, home_id, r_h + k * (actual_h - exp_h))
        rt4 == DictSet(rt3, away_id, r_a + k * ((Milli - actual_h) - (Milli - exp_h)))
        ng3 == DictSet(ng2, home_id, ng2[home_id] + 1)
        ng4 == DictSet(ng3, away_id, ng3[away_id] + 1)
    IN  [ratings |-> rt4, n_games |-> ng4, r_h |-> r_h, r_a |-> r_a, exp_h |-> exp_h]

MaxRows == 2        \* rows of the games frame
MaxDate == 2        \* distinct game dates
TeamIds == { "A", "B" }

GameRows ==
    [date : 1..MaxDate, canonical_home_id : TeamIds \cup { NaN },
     canonical_away_id : TeamIds \cup { NaN }, winner_home : { 0, 1 }]

Frames == UNION { [1..k -> GameRows] : k \in 0..MaxRows }

InitElo ==
    /\ games \in Frames
    /\ sorted_games = << >>
    /\ elo_pc = "load"
    /\ row_i = 0
    /\ ratings = EmptyDict
    /\ n_games = EmptyDict
    /\ elo_log = << >>

\* lines 39-42
EloLoad ==
    /\ elo_pc = "load"
    /\ sorted_games' \in sort_values_date(dropna(games))
    /\ ratings' = EmptyDict
    /\ n_games' = EmptyDict
    /\ row_i' = 1
    /\ elo_pc' = "loop"
    /\ UNCHANGED << games, elo_log >>
    /\ UNCHANGED others_elo

\* lines 50-61: one row
EloStep ==
    /\ elo_pc = "loop"
    /\ row_i <= Len(sorted_games)
    /\ LET row == sorted_games[row_i]
           u == elo_update(ratings, n_games, row, DEFAULT_K,
                           DEFAULT_INITIAL * Milli, DEFAULT_HOME_ADVANTAGE * Milli)
       IN  /\ ratings' = u.ratings
           /\ n_games' = u.n_games
           /\ elo_log' = Append(elo_log,
                  [row |-> row, r_h |-> u.r_h, r_a |-> u.r_a, exp_h |-> u.exp_h,
                   before |-> ratings, after |-> u.ratings])
    /\ row_i' = row_i + 1
    /\ UNCHANGED << games, sorted_games, elo_pc >>
    /\ UNCHANGED others_elo

\* lines 63-67: the loop is over, the frame of ratings is returned
EloReturn ==
    /\ elo_pc = "loop"
    /\ row_i > Len(sorted_games)
    /\ elo_pc' = "done"
    /\ UNCHANGED << games, sorted_games, row_i, ratings, n_games, elo_log >>
    /\ UNCHANGED others_elo

-----------------------------------------------------------------------------
(* pitcher_model.blend_with_market and its caller in project_game.main *)

ALPHA_MAX_TENTHS == 6           \* alpha_max = 0.6
N_GAMES_FULL_MODEL == 25        \* n_games_full_model
CLAMP_LO == 10                  \* 0.01, in thousandths
CLAMP_HI == 990                 \* 0.99, in thousandths

\* a blended probability b is held as b * Milli * BlendDen, so that
\* alpha = AlphaNum(n) / BlendDen is exact
BlendDen == 10 * N_GAMES_FULL_MODEL

Min(a, b) == IF a <= b THEN a ELSE b
Max(a, b) == IF a >= b THEN a ELSE b

\* alpha = alpha_max * (1.0 - min(n_games_played, n_full) / n_full), times BlendDen
AlphaNum(n_games_played) ==
    ALPHA_MAX_TENTHS * (N_GAMES_FULL_MODEL - Min(n_games_played, N_GAMES_FULL_MODEL))

None == << >>       \* an absent market probability; a present one is << p >>

\* a blend whose alpha is not capped at n_games_full_model games:
\* alpha = alpha_max * (1.0 - n_games_played / n_full)
blend_uncapped(model_win_prob_home, market_fair_home, n_games_played) ==
    IF \/ market_fair_home = None
       \/ market_fair_home[1] <= 0
       \/ market_fair_home[1] >= Milli
    THEN [home |-> model_win_prob_home * BlendDen,
          away |-> (Milli - model_win_prob_home) * BlendDen]
    ELSE LET alpha == ALPHA_MAX_TENTHS * (N_GAMES_FULL_MODEL - n_games_played)
             blended == (BlendDen - alpha) * model_win_prob_home
                        + alpha * market_fair_home[1]
             clamped == Max(CLAMP_LO * BlendDen, Min(CLAMP_HI * BlendDen, blended))
         IN  [home |-> clamped, away |-> Milli * BlendDen - clamped]

\* a blend with the two weights exchanged: alpha on the model
blend_swapped(model_win_prob_home, market_fair_home, n_games_played) ==
    IF \/ market_fair_home = None
       \/ market_fair_home[1] <= 0
       \/ market_fair_home[1] >= Milli
    THEN [home |-> model_win_prob_home * BlendDen,
          away |-> (Milli - model_win_prob_home) * BlendDen]
    ELSE LET alpha == AlphaNum(n_games_played)
             blended == alpha * model_win_prob_home
                        + (BlendDen - alpha) * market_fair_home[1]
             clamped == Max(CLAMP_LO * BlendDen, Min(CLAMP_HI * BlendDen, blended))
         IN  [home |-> clamped, away |-> Milli * BlendDen - clamped]

\* a blend that clamps the model probability also when it skips the market
blend_clamp_on_skip(model_win_prob_home, market_fair_home, n_games_played) ==
    LET alpha == IF \/ market_fair_home = None
                    \/ market_fair_home[1] <= 0
                    \/ market_fair_home[1] >= Milli
                 THEN 0 ELSE AlphaNum(n_games_played)
        mkt == IF market_fair_home = None THEN 0 ELSE market_fair_home[1]
        blended == (BlendDen - alpha) * model_win_prob_home + alpha * mkt
        clamped == Max(CLAMP_LO * BlendDen, Min(CLAMP_HI * BlendDen, blended))
    IN  [home |-> clamped, away |-> Milli * BlendDen - clamped]

\* blend_with_market(model_win_prob_home, market_fair_home, n_games_played)
blend_with_market(model_win_prob_home, market_fair_home, n_games_played) ==
    IF \/ market_fair_home = None
       \/ market_fair_home[1] <= 0
       \/ market_fair_home[1] >= Milli
    THEN [home |-> model_win_prob_home * BlendDen,
          away |-> (Milli - model_win_prob_home) * BlendDen]
    ELSE LET alpha == AlphaNum(n_games_played)
             blended == (BlendDen - alpha) * model_win_prob_home
                        + alpha * market_fair_home[1]
             clamped == Max(CLAMP_LO * BlendDen, Min(CLAMP_HI * BlendDen, blended))
         IN  [home |-> clamped, away |-> Milli * BlendDen - clamped]

MaxGamesPlayed == 27    \* largest n_games_played tried

\* model probabilities (thousandths), inside and outside the clamp interval
ModelProbs == { 1, 5, 10, 300, 550, 700, 990, 995, 999 }
\* market_fair_home: absent, out of (0,1), and inside
MarketProbs == { None, << -100 >>, << 0 >>, << 5 >>, << 300 >>, << 700 >>,
                 << 995 >>, << 1000 >>, << 1200 >> }

InitBlend ==
    /\ bl_in \in [model : ModelProbs, market : MarketProbs,
                  n : (-1)..MaxGamesPlayed, n_given : BOOLEAN]
    /\ bl_out = [by |-> "none"]

\* a direct call of blend_with_market
BlendCall ==
    /\ bl_out.by = "none"
    /\ bl_out' = [by |-> "blend_with_market",
                  p |-> blend_with_market(bl_in.model, bl_in.market, bl_in.n)]
    /\ UNCHANGED bl_in
    /\ UNCHANGED others_blend

\* project_game.main lines 102-105: --market-fair-home and --n-games options
ProjectGameBlend ==
    /\ bl_out.by = "none"
    /\ LET p_a == bl_in.model * BlendDen
           p_b == (Milli - bl_in.model) * BlendDen
           n == IF bl_in.n_given THEN bl_in.n ELSE 0
       IN  IF bl_in.market # None /\ 0 < bl_in.market[1] /\ bl_in.market[1] < Milli
           THEN bl_out' = [by |-> "project_game",
                           p |-> blend_with_market(bl_in.model, bl_in.market, n)]
           ELSE bl_out' = [by |-> "project_game", p |-> [home |-> p_a, away |-> p_b]]
    /\ UNCHANGED bl_in
    /\ UNCHANGED others_blend

-----------------------------------------------------------------------------
(* build_todays_starters.py: pitcher history and the evidence tiers *)

\* ESPN pitcher ids are positive numbers of one digit, so that the order of
\* the id strings is the order of the numbers; NoId is the empty string
NoId == 0

\* confidences are held in hundredths
\* a pick that carries no confidence
pick_without_confidence(espn_id, name, source, confidence) ==
    [espn_id |-> espn_id, name |-> name, source |-> source, confidence |-> 0]

StarterPick(espn_id, name, source, confidence) ==
    [espn_id |-> espn_id, name |-> name, source |-> source, confidence |-> confidence]

\* Python's None where a StarterPick is expected
NoPick == StarterPick(NoId, << >>, "None", 0)

\* datetime.date as a day number; day 1 is Sunday 2026-02-01, and
\* date.weekday() counts from Monday = 0
weekday(d) == (d + 5) % 7

\* normalize_person_name
normalize_person_name(s) ==
    LET s0 == normalize_text(s)
        s1 == Replace(Replace(s0, << SPACE,"j","r" >>, << >>), << SPACE,"s","r" >>, << >>)
        s2 == Replace(Replace(s1, << SPACE,"i","i","i" >>, << >>), << SPACE,"i","i" >>, << >>)
    IN  Join(Split(s2))

\* cid or normalize_team_name(name): the canonical id when there is one, else
\* the normalized team name.  The id is held as a one-element sequence, so
\* that a key is a sequence in both cases
team_key_of(cid, tname) == IF cid # "" THEN << cid >> ELSE normalize_team_name(tname)

\* a row of the frame returned by load_pitching_starts
StartRow(cid, tname, pid, pname, d) ==
    [team_key |-> team_key_of(cid, tname), pitcher_espn_id |-> pid, pitcher_name |-> pname,
     pitcher_name_norm |-> normalize_person_name(pname), game_date |-> d]

\* df.sort_values("game_date").iloc[-1]: a row of the latest date (the last
\* such row of the frame)
LatestRow(rows) ==
    rows[CHOOSE i \in DOMAIN rows :
           /\ \A j \in DOMAIN rows : rows[j].game_date <= rows[i].game_date
           /\ \A j \in DOMAIN rows : rows[j].game_date = rows[i].game_date => j <= i]

LastToken(s) == IF Split(s) = << >> THEN << >> ELSE Split(s)[Len(Split(s))]

\* resolve_name_to_pitcher_id returns (pitcher_espn_id, canonical_name), or
\* ("", "") when nothing matches
NoMatch == << NoId, << >> >>

\* r = df.sort_values("game_date").iloc[-1]; return (r id, r name)
latest_id_name(rows) == << LatestRow(rows).pitcher_espn_id, LatestRow(rows).pitcher_name >>

\* the fallback: last name and first initial
match_last_initial(team_df, tokens) ==
    LET by_last == SelectSeq(team_df, LAMBDA r :
                       LastToken(r.pitcher_name_norm) = tokens[Len(tokens)])
        cand == SelectSeq(by_last, LAMBDA r : r.pitcher_name_norm[1] = tokens[1][1])
    IN  IF tokens = << >> THEN NoMatch
        ELSE IF by_last = << >> THEN NoMatch
        ELSE IF cand = << >> THEN NoMatch
        ELSE latest_id_name(cand)

\* the lookup among the rows of the team, the name already normalized
match_in_team(team_df, name_norm) ==
    LET exact == SelectSeq(team_df, LAMBDA r : r.pitcher_name_norm = name_norm)
    IN  IF name_norm = << >> THEN NoMatch
        ELSE IF team_df = << >> THEN NoMatch
        ELSE IF exact # << >> THEN latest_id_name(exact)
        ELSE match_last_initial(team_df, Split(name_norm))

resolve_name_to_pitcher_id(team_key, pitcher_name, starts) ==
    IF starts = << >> \/ team_key = << >> \/ pitcher_name = << >> THEN NoMatch
    ELSE match_in_team(SelectSeq(starts, LAMBDA r : r.team_key = team_key),
                       normalize_person_name(pitcher_name))

\* sorted list of numbers (grp.sort_values("game_date"))
RECURSIVE InsertAsc(_, _)
InsertAsc(x, out) ==
    IF out = << >> THEN << x >>
    ELSE IF x < Head(out) THEN << x >> \o out
    ELSE << Head(out) >> \o InsertAsc(x, Tail(out))

RECURSIVE SortAsc(_)
SortAsc(xs) == IF xs = << >> THEN << >> ELSE InsertAsc(Head(xs), SortAsc(Tail(xs)))

\* twice the median of a non-empty list (pd.Series(rests).median())
Median2(xs) ==
    LET srt == SortAsc(xs)
        n == Len(srt)
    IN  IF n % 2 = 1 THEN 2 * srt[(n + 1) \div 2]
        ELSE srt[n \div 2] + srt[n \div 2 + 1]

\* Series.mode().iloc[0]: the smallest of the most frequent values
ModeFirst(xs) ==
    LET cnt(v) == Cardinality({ i \in DOMAIN xs : xs[i] = v })
        top == { v \in Range(xs) : \A w \in Range(xs) : cnt(w) <= cnt(v) }
    IN  CHOOSE v \in top : \A w \in top : v <= w

\* the score of one pitcher, in hundredths (lines 424-437)
rotation_score(days_since, target_rest, rests, dom_match, starts_n) ==
    (IF rests = << >> THEN 100 * Abs(days_since - target_rest)
     ELSE Min(100 * Abs(days_since - target_rest),
              50 * Abs(2 * days_since - Median2(rests)) + 25))
    - (IF dom_match THEN 100 ELSE 0)
    - Min(starts_n, 6) * 15
    + (IF days_since < 3 THEN 400 ELSE 0)
    + (IF days_since > 14 THEN 200 ELSE 0)

\* the confidence of one pitcher without the clamp of line 446
rotation_confidence_unclamped(days_since, target_rest, dom_match, starts_n) ==
    35 + Min(starts_n, 5) * 8
       + (IF Abs(days_since - target_rest) <= 1 THEN 12 ELSE 0)
       + (IF dom_match THEN 12 ELSE 0)
       - (IF days_since < 3 \/ days_since > 14 THEN 20 ELSE 0)

\* the confidence of one pitcher, in hundredths (lines 439-446)
rotation_confidence(days_since, target_rest, dom_match, starts_n) ==
    Max(10, Min(85, 35 + Min(starts_n, 5) * 8
                    + (IF Abs(days_since - target_rest) <= 1 THEN 12 ELSE 0)
                    + (IF dom_match THEN 12 ELSE 0)
                    - (IF days_since < 3 \/ days_since > 14 THEN 20 ELSE 0)))

rotation_row(pid, pname, days_since, target_rest, rests, dom_match, starts_n) ==
    [pitcher_espn_id |-> pid, pitcher_name |-> pname,
     score |-> rotation_score(days_since, target_rest, rests, dom_match, starts_n),
     confidence |-> rotation_confidence(days_since, target_rest, dom_match, starts_n),
     starts_n |-> starts_n, days_since |-> days_since]

\* the gaps between consecutive start dates
rests_of(start_dates) ==
    [i \in 1..(Len(start_dates) - 1) |-> start_dates[i + 1] - start_dates[i]]

\* the body of the loop over groupby("pitcher_espn_id"): one candidate row
rotation_group(pid, grp, game_day) ==
    rotation_row(pid, LatestRow(grp).pitcher_name, game_day - LatestRow(grp).game_date,
                 IF weekday(game_day) \in { 4, 5, 6 } THEN 7 ELSE 4,
                 rests_of(SortAsc([i \in DOMAIN grp |-> grp[i].game_date])),
                 ModeFirst([i \in DOMAIN grp |-> weekday(grp[i].game_date)])
                     = weekday(game_day),
                 Len(grp))

RotationCandidate(pid, tdf, game_day) ==
    rotation_group(pid, SelectSeq(tdf, LAMBDA r : r.pitcher_espn_id = pid), game_day)

\* sorted(rows, key=(score, -starts_n, days_since)): strictly earlier in the order
RotationBefore(a, b) ==
    \/ a.score < b.score
    \/ a.score = b.score /\ a.starts_n > b.starts_n
    \/ a.score = b.score /\ a.starts_n = b.starts_n /\ a.days_since < b.days_since

\* rows.sort(key=...)[0]; rows come out of groupby in the order of the ids,
\* and the sort is stable, so the smallest id wins a full tie
rotation_best(rows) ==
    CHOOSE b \in rows :
        \A r \in rows :
            r # b => \/ RotationBefore(b, r)
                     \/ (~RotationBefore(r, b) /\ b.pitcher_espn_id < r.pitcher_espn_id)

rotation_pick(best) ==
    StarterPick(best.pitcher_espn_id, best.pitcher_name, "inferred_rotation",
                best.confidence)

infer_from_history(tdf, game_day) ==
    rotation_pick(rotation_best({ RotationCandidate(pid, tdf, game_day) :
                                    pid \in { tdf[i].pitcher_espn_id : i \in DOMAIN tdf } }))

infer_probable_starter(team_key, game_day, starts) ==
    LET tdf0 == SelectSeq(starts, LAMBDA r : r.team_key = team_key
                                             /\ r.pitcher_espn_id # NoId)
        tdf == SelectSeq(tdf0, LAMBDA r : r.game_date < game_day)
    IN  IF starts = << >> \/ team_key = << >> THEN NoPick
        ELSE IF tdf0 = << >> THEN NoPick
        ELSE IF tdf = << >> THEN NoPick
        ELSE infer_from_history(tdf, game_day)

\* choose_d1_starter(rows, target_date, opponent_name)
TBD == << "t","b","d" >>
TO_BE_DETERMINED == << "t","o"," ","b","e"," ","d","e","t","e","r","m","i","n","e","d" >>

\* the rows of the date narrowed to the opponent when some row matches it
d1_candidates(cands, opp_norm) ==
    LET matched == SelectSeq(cands, LAMBDA r : r.opponent_norm = opp_norm)
    IN  IF opp_norm # << >> /\ matched # << >> THEN matched ELSE cands

\* a lineup row without a named starter gives no pick
d1_pick_skips_tbd(c) ==
    IF c.sp_name = << >> \/ normalize_text(c.sp_name) \in { TBD, TO_BE_DETERMINED }
    THEN NoPick
    ELSE StarterPick(NoId, c.sp_name, "d1_lineup_today", 78)

\* the pick made from the lineup row c
d1_pick_of_row(c) ==
    IF c.sp_name = << >> \/ normalize_text(c.sp_name) \in { TBD, TO_BE_DETERMINED }
    THEN StarterPick(NoId, << >>, "d1_lineup_today", 20)
    ELSE StarterPick(NoId, c.sp_name, "d1_lineup_today", 78)

choose_d1_starter(rows, target_date, opponent_name) ==
    LET cands == SelectSeq(rows, LAMBDA r : r.game_date = target_date)
    IN  IF rows = << >> THEN NoPick
        ELSE IF cands = << >> THEN NoPick
        ELSE d1_pick_of_row(d1_candidates(cands, normalize_team_name(opponent_name))[1])

\* lines 741-766: the manual row names a pitcher without an id
manual_named(pname, r) ==
    IF r[1] # NoId
    THEN StarterPick(r[1], IF r[2] # << >> THEN r[2] ELSE pname, "manual_name_matched", 92)
    ELSE StarterPick(NoId, pname, "manual_unresolved_name", 45)

\* make_pick_from_manual_side(row, side, team_key, starts)
make_pick_from_manual_side(row, side, team_key, starts) ==
    LET pid == IF side = "home" THEN row.home_pitcher_espn_id ELSE row.away_pitcher_espn_id
        pname == IF side = "home" THEN row.home_pitcher_name ELSE row.away_pitcher_name
    IN  IF pid # NoId THEN StarterPick(pid, pname, "manual", 98)
        ELSE IF pname # << >>
             THEN manual_named(pname, resolve_name_to_pitcher_id(team_key, pname, starts))
        ELSE NoPick

-----------------------------------------------------------------------------
(* build_todays_starters.main: the evidence ladder for one game *)

SCHEDULED_STATUSES ==
    { "STATUS_SCHEDULED", "STATUS_CREATED", "STATUS_POSTPONED", "STATUS_CANCELED",
      "STATUS_DELAYED" }

home_team_key == team_key_of(game.home_canonical_id, game.home_team_name)
away_team_key == team_key_of(game.away_canonical_id, game.away_team_name)

NoRow == [present |-> FALSE]    \* find_manual_row returned None

\* lines 883-904: a D1 pick that names a pitcher is matched against history
d1_matched(pick, r) ==
    IF r[1] # NoId
    THEN StarterPick(r[1], IF r[2] # << >> THEN r[2] ELSE pick.name,
                     pick.source, Min(90, pick.confidence + 8))
    ELSE StarterPick(NoId, pick.name, pick.source, pick.confidence - 15)

d1_match_history(pick, team_key, starts) ==
    IF pick = NoPick THEN NoPick
    ELSE IF pick.name # << >> /\ pick.espn_id = NoId
    THEN d1_matched(pick, resolve_name_to_pitcher_id(team_key, pick.name, starts))
    ELSE pick

\* lines 861-908 for one side: the pick the D1 tier assigns, or NoPick.
\* rows are the lineup rows of the team's page (none when no slug resolves)
d1_tier_pick(side) ==
    LET rows == IF side = "home" THEN game.d1_rows.home ELSE game.d1_rows.away
        opp_name == IF side = "home" THEN game.away_team_name ELSE game.home_team_name
        key == IF side = "home" THEN home_team_key ELSE away_team_key
    IN  IF rows = << >> THEN NoPick
        ELSE d1_match_history(choose_d1_starter(rows, game.game_day, opp_name),
                              key, game.starts)

\* lines 921-942 for one side
summary_tier_pick(side) ==
    LET sm == IF side = "home" THEN game.summary.home ELSE game.summary.away
    IN  IF sm.id # NoId \/ sm.name # << >>
        THEN StarterPick(sm.id, sm.name, "espn_summary", IF sm.id # NoId THEN 99 ELSE 80)
        ELSE NoPick

\* lines 957-976 for one side
post_matched(pick, r) ==
    IF r[1] # NoId
    THEN StarterPick(r[1], IF r[2] # << >> THEN r[2] ELSE pick.name,
                     pick.source, Min(95, pick.confidence + 5))
    ELSE pick

post_resolve(pick, team_key, starts) ==
    IF pick.espn_id = NoId /\ pick.name # << >>
    THEN post_matched(pick, resolve_name_to_pitcher_id(team_key, pick.name, starts))
    ELSE pick

\* the history records one entry per assignment of a pick
Logged(log, tier, side, old, new) ==
    IF new # old THEN Append(log, [tier |-> tier, side |-> side, pick |-> new]) ELSE log

\* the two picks become (nh, na), and the history records what changed
PicksBecome(tier, nh, na) ==
    /\ home_pick' = nh
    /\ away_pick' = na
    /\ pick_log' = Logged(Logged(pick_log, tier, "home", home_pick, nh),
                          tier, "away", away_pick, na)

\* a ladder without the "is None" tests: every tier that has a pick assigns it
TierOverwrite(tier, h, a) ==
    PicksBecome(tier, IF h # NoPick THEN h ELSE home_pick,
                      IF a # NoPick THEN a ELSE away_pick)

\* "if home_pick is None: home_pick = ...": a tier that proposes (h, a) fills
\* only the sides that have no pick yet
TierAssign(tier, h, a) ==
    PicksBecome(tier, IF home_pick = NoPick THEN h ELSE home_pick,
                      IF away_pick = NoPick THEN a ELSE away_pick)

\* 1) lines 853-857
ManualTier ==
    /\ st_pc = "manual"
    /\ IF game.man.present
       THEN TierAssign("manual",
                make_pick_from_manual_side(game.man, "home", home_team_key, game.starts),
                make_pick_from_manual_side(game.man, "away", away_team_key, game.starts))
       ELSE UNCHANGED << home_pick, away_pick, pick_log >>
    /\ st_pc' = "d1"
    /\ UNCHANGED << game, out_rows >>
    /\ UNCHANGED others_starter

\* 2) lines 859-908
D1Tier ==
    /\ st_pc = "d1"
    /\ IF game.use_d1
       THEN TierAssign("d1", d1_tier_pick("home"), d1_tier_pick("away"))
       ELSE UNCHANGED << home_pick, away_pick, pick_log >>
    /\ st_pc' = "summary"
    /\ UNCHANGED << game, out_rows >>
    /\ UNCHANGED others_starter

\* 3) lines 910-942
SummaryTier ==
    /\ st_pc = "summary"
    /\ IF game.use_summary /\ game.status \notin SCHEDULED_STATUSES
       THEN TierAssign("summary", summary_tier_pick("home"), summary_tier_pick("away"))
       ELSE UNCHANGED << home_pick, away_pick, pick_log >>
    /\ st_pc' = "infer"
    /\ UNCHANGED << game, out_rows >>
    /\ UNCHANGED others_starter

\* 4) lines 944-948
InferTier ==
    /\ st_pc = "infer"
    /\ TierAssign("infer",
           infer_probable_starter(home_team_key, game.game_day, game.starts),
           infer_probable_starter(away_team_key, game.game_day, game.starts))
    /\ st_pc' = "unknown"
    /\ UNCHANGED << game, out_rows >>
    /\ UNCHANGED others_starter

\* 5) lines 950-954
UnknownTier ==
    /\ st_pc = "unknown"
    /\ TierAssign("unknown", StarterPick(NoId, << >>, "unknown", 0),
                  StarterPick(NoId, << >>, "unknown", 0))
    /\ st_pc' = "post"
    /\ UNCHANGED << game, out_rows >>
    /\ UNCHANGED others_starter

\* out_rows.append({...}), lines 987-1013: the columns that come from the
\* picks (every tier has stripped the id it holds)
out_row(hp, ap) ==
    [ home_pitcher_name |-> hp.name, away_pitcher_name |-> ap.name,
      home_pitcher_espn_id |-> hp.espn_id, away_pitcher_espn_id |-> ap.espn_id,
      home_starter_source |-> hp.source, away_starter_source |-> ap.source,
      home_starter_confidence |-> hp.confidence,
      away_starter_confidence |-> ap.confidence ]

\* lines 956-1013: best-effort id resolution, then the output row
PostResolve ==
    /\ st_pc = "post"
    /\ PicksBecome("post", post_resolve(home_pick, home_team_key, game.starts),
                           post_resolve(away_pick, away_team_key, game.starts))
    /\ out_rows' = Append(out_rows, out_row(home_pick', away_pick'))
    /\ st_pc' = "done"
    /\ UNCHANGED game
    /\ UNCHANGED others_starter

-----------------------------------------------------------------------------
(* Inputs of the starter pipeline: one game and the evidence about it *)

JOHN_DOE == <<"J","o","h","n"," ","D","o","e">>
J_DOE == <<"J","."," ","D","o","e">>
AL_ROE == <<"A","l"," ","R","o","e">>
SAM_LEE == <<"S","a","m"," ","L","e","e">>
MAX_POE == <<"M","a","x"," ","P","o","e">>
TBD_TEXT == <<"T","B","D">>
KENT_NAME == <<"K","e","n","t">>
FLORIDA_NAME == <<"F","l","o","r","i","d","a"," ","G","a","t","o","r","s">>

GameDay == 20       \* the target date: Friday 2026-02-20

\* the home team is resolved (canonical id KENT); the away team is not, so
\* its key is its normalized name
HomeCid == "KENT"
AwayCid == ""

D1Row(d, opponent, sp_name) ==
    [game_date |-> d, opponent_norm |-> normalize_team_name(opponent), sp_name |-> sp_name]

\* pitching_lines_espn.csv as loaded by load_pitching_starts
Histories ==
    { << >>,
      << StartRow(HomeCid, KENT_NAME, 1, JOHN_DOE, GameDay - 14),
         StartRow(HomeCid, KENT_NAME, 1, JOHN_DOE, GameDay - 7),
         StartRow(HomeCid, KENT_NAME, 2, AL_ROE, GameDay - 6) >>,
      << StartRow(HomeCid, KENT_NAME, 1, JOHN_DOE, GameDay - 7),
         StartRow(AwayCid, FLORIDA_NAME, 3, SAM_LEE, GameDay - 7),
         StartRow(AwayCid, FLORIDA_NAME, 4, AL_ROE, GameDay) >> }

\* what the manual file says for one side: (pitcher_espn_id, pitcher_name)
ManualSides == { << NoId, << >> >>, << 5, << >> >>, << NoId, J_DOE >>, << NoId, MAX_POE >> }

ManualRows ==
    { NoRow }
    \cup { [present |-> TRUE,
            home_pitcher_espn_id |-> h[1], home_pitcher_name |-> h[2],
            away_pitcher_espn_id |-> a[1], away_pitcher_name |-> a[2]] :
           h \in ManualSides, a \in ManualSides }

\* the lineup rows of a team's D1Baseball page, given its opponent's name
D1Pages(opponent) ==
    { << >>,
      << D1Row(GameDay, opponent, TBD_TEXT) >>,
      << D1Row(GameDay, opponent, JOHN_DOE) >>,
      << D1Row(GameDay - 1, opponent, JOHN_DOE) >>,
      << D1Row(GameDay, KENT_NAME, MAX_POE), D1Row(GameDay, FLORIDA_NAME, SAM_LEE) >> }

D1Cases ==
    { [use_d1 |-> FALSE, rows |-> [home |-> << D1Row(GameDay, FLORIDA_NAME, JOHN_DOE) >>,
                                   away |-> << >>]] }
    \cup { [use_d1 |-> TRUE, rows |-> [home |-> h, away |-> a]] :
           h \in D1Pages(FLORIDA_NAME), a \in D1Pages(KENT_NAME) }

\* what extract_starters_from_summary returns for one side
SummarySides == { [id |-> NoId, name |-> << >>], [id |-> 7, name |-> SAM_LEE],
                  [id |-> NoId, name |-> SAM_LEE] }

SummaryCases ==
    { [use_summary |-> FALSE, status |-> "STATUS_IN_PROGRESS",
       summary |-> [home |-> [id |-> 7, name |-> SAM_LEE], away |-> [id |-> 7, name |-> SAM_LEE]]],
      [use_summary |-> TRUE, status |-> "STATUS_SCHEDULED",
       summary |-> [home |-> [id |-> 7, name |-> SAM_LEE], away |-> [id |-> NoId, name |-> << >>]]] }
    \cup { [use_summary |-> TRUE, status |-> "STATUS_IN_PROGRESS",
            summary |-> [home |-> h, away |-> a]] : h \in SummarySides, a \in SummarySides }

Games ==
    { [game_day |-> GameDay, status |-> s.status,
       home_team_name |-> KENT_NAME, away_team_name |-> FLORIDA_NAME,
       home_canonical_id |-> HomeCid, away_canonical_id |-> AwayCid,
       man |-> m, use_d1 |-> d.use_d1, d1_rows |-> d.rows,
       use_summary |-> s.use_summary, summary |-> s.summary, starts |-> h] :
      m \in ManualRows, d \in D1Cases, s \in SummaryCases, h \in Histories }

InitStarters ==
    /\ game \in Games
    /\ st_pc = "manual"
    /\ home_pick = NoPick
    /\ away_pick = NoPick
    /\ pick_log = << >>
    /\ out_rows = << >>

-----------------------------------------------------------------------------
(* build_canonical_teams_2026.main: the registry built from the NCAA list
   and the manual crosswalk.  A CSV cell is a character sequence; a cell
   pandas reads as missing is NA. *)

NA == << "NaN" >>       \* a missing cell (no character sequence has this form)

fillna(cell) == IF cell = NA THEN << >> ELSE cell

RECURSIVE lstrip(_)
lstrip(s) == IF s # << >> /\ Head(s) = SPACE THEN lstrip(Tail(s)) ELSE s

RECURSIVE rstrip(_)
rstrip(s) ==
    IF s # << >> /\ s[Len(s)] = SPACE THEN rstrip(Front(s)) ELSE s

strip(s) == rstrip(lstrip(s))

DigitChars == << "1","2","3","4","5","6","7","8","9" >>

\* str(n) of a one-digit positive id
astype_str(n) == << DigitChars[n] >>

NCAA_PREFIX == << "N","C","A","A","_" >>

column(rows, c) == [ i \in DOMAIN rows |-> rows[i][c] ]

\* Series.duplicated().any()
duplicated_any(col) == \E i, j \in DOMAIN col : i < j /\ col[i] = col[j]

\* drop_duplicates(subset=["ncaa_teams_id"], keep="first")
RECURSIVE drop_duplicates_from(_, _)
drop_duplicates_from(rows, i) ==
    IF i > Len(rows) THEN << >>
    ELSE (IF \E j \in 1..(i - 1) :
                rows[j].ncaa_teams_id = rows[i].ncaa_teams_id
          THEN << >> ELSE << rows[i] >>)
         \o drop_duplicates_from(rows, i + 1)

drop_duplicates(rows) == drop_duplicates_from(rows, 1)

\* the crosswalk rows of one NCAA id, in crosswalk order
RECURSIVE matches_from(_, _, _)
matches_from(xw, id, j) ==
    IF j > Len(xw) THEN << >>
    ELSE (IF xw[j].ncaa_teams_id = id THEN << xw[j] >> ELSE << >>)
         \o matches_from(xw, id, j + 1)

\* canonical_id of one merged row: the crosswalk cell, blank-filled and
\* stripped, or NCAA_<id> when that is blank
canonical_id_of(id, cell) ==
    IF strip(fillna(cell)) = << >>
    THEN NCAA_PREFIX \o astype_str(id)
    ELSE strip(fillna(cell))

merged_row(id, cell) ==
    [ ncaa_teams_id |-> id, canonical_id |-> canonical_id_of(id, cell) ]

RECURSIVE merged_rows(_, _)
merged_rows(id, ms) ==
    IF ms = << >> THEN << >>
    ELSE << merged_row(id, Head(ms).canonical_team_id) >>
         \o merged_rows(id, Tail(ms))

\* ncaa.merge(crosswalk, on="ncaa_teams_id", how="left"), then the
\* canonical_id column; has_canon tells whether the crosswalk file has a
\* canonical_team_id column at all
RECURSIVE merge_left(_, _, _, _)
merge_left(nc, xw, has_canon, i) ==
    IF i > Len(nc) THEN << >>
    ELSE (IF ~has_canon \/ matches_from(xw, nc[i].ncaa_teams_id, 1) = << >>
          THEN << merged_row(nc[i].ncaa_teams_id, NA) >>
          ELSE merged_rows(nc[i].ncaa_teams_id,
                           matches_from(xw, nc[i].ncaa_teams_id, 1)))
         \o merge_left(nc, xw, has_canon, i + 1)

\* a validation that finds nothing
no_dupes(rows) == { }

\* canonical ids occurring more than once among the non-empty ones
dupes_canon(rows) ==
    { rows[i].canonical_id : i \in
        { i \in DOMAIN rows :
            /\ strip(rows[i].canonical_id) # << >>
            /\ \E j \in DOMAIN rows :
                  j # i /\ strip(rows[j].canonical_id)
                             = strip(rows[i].canonical_id) } }

NoFile == [ written |-> FALSE, rows |-> << >> ]

MaxNcaaRows == 3        \* rows of the NCAA list
MaxXwRows == 2          \* rows of the crosswalk

NcaaIds == { 1, 2 }

CanonCells ==
    { NA, << " " >>, << "X" >>, << "X", " " >>, NCAA_PREFIX \o << "2" >> }

NcaaLists ==
    UNION { [ 1..n -> [ ncaa_teams_id : NcaaIds ] ] : n \in 0..MaxNcaaRows }

CrosswalkRows ==
    UNION { [ 1..n -> [ ncaa_teams_id : NcaaIds,
                        canonical_team_id : CanonCells ] ]
            : n \in 0..MaxXwRows }

Crosswalks ==
    { [ has_canon |-> TRUE, rows |-> r ] : r \in CrosswalkRows }
    \cup { [ has_canon |-> FALSE, rows |-> r ] :
           r \in { q \in CrosswalkRows :
                     \A i \in DOMAIN q : q[i].canonical_team_id = NA } }

InitRegistry ==
    /\ ncaa \in NcaaLists
    /\ crosswalk \in Crosswalks
    /\ merged = << >>
    /\ out_csv = NoFile
    /\ reg_pc = "start"

\* lines 44-91: read both files, refuse a duplicated NCAA id, merge
RegistryMerge ==
    /\ reg_pc = "start"
    /\ IF duplicated_any(column(ncaa, "ncaa_teams_id"))
       THEN /\ reg_pc' = "abort"
            /\ merged' = merged
       ELSE /\ reg_pc' = "merged"
            /\ merged' = merge_left(ncaa, drop_duplicates(crosswalk.rows),
                                    crosswalk.has_canon, 1)
    /\ UNCHANGED << ncaa, crosswalk, out_csv >>
    /\ UNCHANGED others_registry

\* lines 93-98: refuse a duplicated canonical_id
RegistryValidate ==
    /\ reg_pc = "merged"
    /\ reg_pc' = IF dupes_canon(merged) # { } THEN "abort" ELSE "valid"
    /\ UNCHANGED << ncaa, crosswalk, merged, out_csv >>
    /\ UNCHANGED others_registry

\* lines 100-103: write the file
RegistryWrite ==
    /\ reg_pc = "valid"
    /\ out_csv' = [ written |-> TRUE, rows |-> merged ]
    /\ reg_pc' = "done"
    /\ UNCHANGED << ncaa, crosswalk, merged >>
    /\ UNCHANGED others_registry

-----------------------------------------------------------------------------
(* The two projection paths: project_game.main and
   run_phase1_odds_compare.main, for one game whose teams both resolved *)

\* phase1.win_prob_from_elo: the expression of fit_phase1_elo.elo_expected
win_prob_from_elo(home_rating, away_rating, home_advantage_elo) ==
    << elo_expected(home_rating, away_rating, home_advantage_elo),
       Milli - elo_expected(home_rating, away_rating, home_advantage_elo) >>

\* phase1.prior_win_prob(0.08): 1 / (1 + exp(-0.08)) = 0.520, in thousandths
prior_win_prob == << 520, Milli - 520 >>

DEFAULT_ELO_IF_MISSING == 1500

\* dict.get(key, default) on a ratings map (a function on its keys)
dict_get(d, key, default) == IF key \in DOMAIN d THEN d[key] ELSE default

\* project_game.main lines 63-74
project_game_elo(rt, home_id, away_id, neutral) ==
    win_prob_from_elo(
        dict_get(rt, home_id, DEFAULT_ELO_IF_MISSING * Milli),
        dict_get(rt, away_id, DEFAULT_ELO_IF_MISSING * Milli),
        IF neutral THEN 0 ELSE DEFAULT_HOME_ADVANTAGE * Milli)

\* run_phase1_odds_compare.main lines 84-85 and 130-137
odds_compare_elo(rt, home_id, away_id) ==
    IF DOMAIN rt # { } /\ home_id \in DOMAIN rt /\ away_id \in DOMAIN rt
    THEN win_prob_from_elo(rt[home_id], rt[away_id],
                           DEFAULT_HOME_ADVANTAGE * Milli)
    ELSE prior_win_prob

ProjTeams == { "A", "B", "C" }

FittedRatings == { 1300 * Milli, 1500 * Milli, 1700 * Milli }

RatingsMaps == UNION { [ S -> FittedRatings ] : S \in SUBSET ProjTeams }

InitProject ==
    /\ pj_in \in [ ratings : RatingsMaps, home_id : ProjTeams,
                   away_id : ProjTeams, neutral : BOOLEAN ]
    /\ pj_game = PENDING
    /\ pj_compare = PENDING

ProjectGame ==
    /\ pj_game = PENDING
    /\ pj_game' = project_game_elo(pj_in.ratings, pj_in.home_id,
                                   pj_in.away_id, pj_in.neutral)
    /\ UNCHANGED << pj_in, pj_compare >>
    /\ UNCHANGED others_project

OddsCompare ==
    /\ pj_compare = PENDING
    /\ pj_compare' = odds_compare_elo(pj_in.ratings, pj_in.home_id,
                                      pj_in.away_id)
    /\ UNCHANGED << pj_in, pj_game >>
    /\ UNCHANGED others_project

-----------------------------------------------------------------------------
(* build_pitcher_ratings.main.  Innings and pitch counts are held in
   tenths; a numeric cell is << >> when missing and << n >> otherwise; a
   date is a day number. *)

MIN_IP_FOR_RATING == 1      \* 0.1 innings, in tenths

\* Series.fillna(0) on one numeric cell
fillna0(cell) == IF cell = << >> THEN 0 ELSE cell[1]

\* df[df["IP"].fillna(0) >= MIN_IP_FOR_RATING]
ip_filter(lines) ==
    SelectSeq(lines, LAMBDA r : fillna0(r.IP) >= MIN_IP_FOR_RATING)

\* Series.sum() of one column (NaN skipped); frame.loc[mask, col].sum() is
\* column_sum(SelectSeq(frame, mask), col)
RECURSIVE column_sum(_, _)
column_sum(rows, col) ==
    IF rows = << >> THEN 0
    ELSE fillna0(Head(rows)[col]) + column_sum(Tail(rows), col)

role_of(r) == IF r.starter THEN "SP" ELSE "RP"

\* groupby([pitcher_espn_id, canonical_id, season, role]) keys
pitcher_groups(df) ==
    { << df[i].pitcher_espn_id, df[i].canonical_id, role_of(df[i]) >> :
        i \in DOMAIN df }

in_group(r, key) ==
    /\ r.pitcher_espn_id = key[1]
    /\ r.canonical_id = key[2]
    /\ role_of(r) = key[3]

\* agg(n_games = nunique(event_id), IP = sum(IP)) per group
pitcher_ratings_of(df) ==
    [ key \in pitcher_groups(df) |->
        [ n_games |-> Cardinality({ df[i].event_id : i \in
                          { i \in DOMAIN df : in_group(df[i], key) } }),
          IP |-> column_sum(SelectSeq(df, LAMBDA r : in_group(r, key)), "IP") ] ]

\* team SP / RP innings, sp.merge(rp, how="outer").fillna(0)
team_strength_of(df) ==
    [ t \in { df[i].canonical_id : i \in DOMAIN df } |->
        [ sp_ip |-> column_sum(SelectSeq(df, LAMBDA r : r.canonical_id = t /\ r.starter), "IP"),
          rp_ip |-> column_sum(SelectSeq(df, LAMBDA r : r.canonical_id = t /\ ~r.starter), "IP") ] ]

\* rp_only = df[~df["starter"]]
rp_only_of(df) == SelectSeq(df, LAMBDA r : ~r.starter)

\* mask_1 = (_date == d - 1);  mask_3 = (_date >= d - 3) & (_date < d)
mask_1(r, d) == r.game_date = d - 1

mask_3(r, d) == r.game_date >= d - 3 /\ r.game_date < d

\* a workload row that also counts the team's starters
workload_any_role(df, rp, team, d) ==
    [ ip_last_1d |-> column_sum(SelectSeq(df, LAMBDA r : r.canonical_id = team /\ mask_1(r, d)), "IP"),
      ip_last_3d |-> column_sum(SelectSeq(df, LAMBDA r : r.canonical_id = team /\ mask_3(r, d)), "IP"),
      pc_last_1d |-> column_sum(SelectSeq(df, LAMBDA r : r.canonical_id = team /\ mask_1(r, d)), "PC") ]

\* one row of bullpen_workload.csv (lines 86-101)
workload_row(df, rp, team, d) ==
    [ ip_last_1d |-> column_sum(SelectSeq(rp, LAMBDA r : r.canonical_id = team /\ mask_1(r, d)), "IP"),
      ip_last_3d |-> column_sum(SelectSeq(rp, LAMBDA r : r.canonical_id = team /\ mask_3(r, d)), "IP"),
      pc_last_1d |-> column_sum(SelectSeq(rp, LAMBDA r : r.canonical_id = team /\ mask_1(r, d)), "PC") ]

\* the loop of lines 82-101: a row for every team with a relief appearance
\* and every date with one
workload_of(df, rp) ==
    [ key \in { rp[i].canonical_id : i \in DOMAIN rp }
              \X { rp[i].game_date : i \in DOMAIN rp } |->
        workload_row(df, rp, key[1], key[2]) ]

MaxLines == 2           \* rows of pitching_lines_espn.csv

PitchTeams == { "A", "B" }

PitchDays == 1..4

\* (IP, PC) of one appearance: missing, none, one out, two innings
Outings == { [ IP |-> << >>, PC |-> << >> ], [ IP |-> << 0 >>, PC |-> << 2 >> ],
             [ IP |-> << 1 >>, PC |-> << 5 >> ], [ IP |-> << 20 >>, PC |-> << 30 >> ] }

\* one pitching line; a team's starters are one pitcher, its relievers another
PitchingLine(t, d, st, o) ==
    [ canonical_id |-> t, game_date |-> d, starter |-> st,
      pitcher_espn_id |-> << t, st >>, event_id |-> << d >>,
      IP |-> o.IP, PC |-> o.PC ]

PitchingLines ==
    { PitchingLine(t, d, st, o) :
        t \in PitchTeams, d \in PitchDays, st \in BOOLEAN, o \in Outings }

InitPitchers ==
    /\ pitching_lines \in UNION { [ 1..n -> PitchingLines ] : n \in 0..MaxLines }
    /\ pr_pc = "start"
    /\ pitcher_ratings = << >>
    /\ team_pitcher_strength = << >>
    /\ bullpen_workload = << >>

\* main, lines 36-105
BuildPitcherRatings ==
    /\ pr_pc = "start"
    /\ pr_pc' = "done"
    /\ pitcher_ratings' = pitcher_ratings_of(ip_filter(pitching_lines))
    /\ team_pitcher_strength' = team_strength_of(ip_filter(pitching_lines))
    /\ bullpen_workload' = workload_of(ip_filter(pitching_lines),
                                       rp_only_of(ip_filter(pitching_lines)))
    /\ UNCHANGED pitching_lines
    /\ UNCHANGED others_pitchers

-----------------------------------------------------------------------------
(* pitcher_model.get_sp_rating.  Run averages and innings are held in
   tenths. *)

LEAGUE_RA9_DEFAULT == 55        \* 5.5
EXPECTED_IP_DEFAULT == 50       \* 5.0

\* team_strength[(canonical_id == team) & (season == season)]
team_rows(team_strength, canonical_id, season) ==
    SelectSeq(team_strength,
              LAMBDA t : t.canonical_id = canonical_id /\ t.season = season)

\* lines 53-56 and 64-67: the team's SP run average, else the league's
team_or_league(rows, league_ra9) ==
    IF Len(rows) > 0 THEN << rows[1].sp_ra9, EXPECTED_IP_DEFAULT >>
    ELSE << league_ra9, EXPECTED_IP_DEFAULT >>

\* the pitcher's SP rows of that team and season
sp_rows(rt, pitcher_espn_id, canonical_id, season) ==
    SelectSeq(rt,
              LAMBDA r : /\ r.pitcher_espn_id = pitcher_espn_id
                         /\ r.canonical_id = canonical_id
                         /\ r.season = season
                         /\ r.role = "SP")

get_sp_rating(pitcher_espn_id, canonical_id, season, rt, team_strength, league_ra9) ==
    IF pitcher_espn_id = << >> \/ strip(pitcher_espn_id) = << >>
    THEN team_or_league(team_rows(team_strength, canonical_id, season),
                        league_ra9)
    ELSE IF Len(sp_rows(rt, pitcher_espn_id, canonical_id, season)) > 0
    THEN << sp_rows(rt, pitcher_espn_id, canonical_id, season)[1].ra9,
            sp_rows(rt, pitcher_espn_id, canonical_id, season)[1]
                .avg_IP_per_app >>
    ELSE team_or_league(team_rows(team_strength, canonical_id, season),
                        league_ra9)

MaxSpRows == 2          \* rows of either table

P1 == << "p", "1" >>

SpSeasons == { 2025, 2026 }

RatingRows ==
    [ pitcher_espn_id : { P1 }, canonical_id : { "A", "B" },
      season : SpSeasons, role : { "SP", "RP" }, ra9 : { 31 },
      avg_IP_per_app : { 62 } ]

TeamStrengthRows ==
    [ canonical_id : { "A", "B" }, season : SpSeasons, sp_ra9 : { 47 } ]

InitSpRating ==
    /\ sp_in \in
         [ pitcher_espn_id : { << >>, << " " >>, P1 },
           canonical_id : { "A" },
           season : { 2026 },
           ratings : UNION { [ 1..n -> RatingRows ] : n \in 0..MaxSpRows },
           team_strength :
               UNION { [ 1..n -> TeamStrengthRows ] : n \in 0..MaxSpRows } ]
    /\ sp_out = PENDING

GetSpRating ==
    /\ sp_out = PENDING
    /\ sp_out' = get_sp_rating(sp_in.pitcher_espn_id, sp_in.canonical_id,
                               sp_in.season, sp_in.ratings,
                               sp_in.team_strength, LEAGUE_RA9_DEFAULT)
    /\ UNCHANGED sp_in
    /\ UNCHANGED others_sprating

-----------------------------------------------------------------------------
(* build_todays_starters.find_manual_row.  The result is << >> for None and
   << row >> for a row. *)

\* lines 112-114 of team_names_match, on the two normalized names
names_match_norm(na, nb) ==
    IF na = << >> \/ nb = << >> THEN FALSE
    ELSE \/ na = nb
         \/ StartsWith(na, nb \o << SPACE >>)
         \/ StartsWith(nb, na \o << SPACE >>)

team_names_match(a, b) ==
    names_match_norm(normalize_team_name(a), normalize_team_name(b))

\* lines 279-282: the first row that carries the game's event id
by_event_id(g, df) ==
    IF g.event_id = "" THEN << >>
    ELSE SelectSeq(df, LAMBDA r : r.event_id = g.event_id)

\* lines 284-287: the rows of the game's date, or of no date
date_subset(g, df) ==
    IF g.game_date = "" THEN df
    ELSE SelectSeq(df,
                   LAMBDA r : r.game_date = "" \/ r.game_date = g.game_date)

\* lines 291-298: one side of a row agrees with the game, by canonical id
\* when both have one, else by name
side_ok(row_cid, game_cid, row_team, game_team) ==
    IF row_cid # "" /\ game_cid # "" THEN row_cid = game_cid
    ELSE team_names_match(row_team, game_team)

row_matches(g, r) ==
    /\ side_ok(r.home_canonical_id, g.home_canonical_id,
               r.home_team, g.home_team_name)
    /\ side_ok(r.away_canonical_id, g.away_canonical_id,
               r.away_team, g.away_team_name)

\* lines 290-300: the first row of the subset that agrees on both sides
first_of(rows) == IF rows = << >> THEN << >> ELSE << rows[1] >>

find_manual_row(g, df) ==
    IF df = << >> THEN << >>
    ELSE IF by_event_id(g, df) # << >>
    THEN first_of(by_event_id(g, df))
    ELSE first_of(SelectSeq(date_subset(g, df),
                            LAMBDA r : row_matches(g, r)))

MaxManualRows == 2      \* rows of the manual starters file

ManualFileRows ==
    [ event_id : { "", "E1", "E2" }, game_date : { "", "d1", "d2" },
      home_canonical_id : { "", "A" }, away_canonical_id : { "B" },
      home_team : { << >>, KENT_NAME }, away_team : { N_USC } ]

ScoreboardGames ==
    [ event_id : { "E1", "E2" }, game_date : { "", "d1" },
      home_canonical_id : { "", "A" }, away_canonical_id : { "B" },
      home_team_name : { N_KentSt, FLORIDA_NAME },
      away_team_name : { N_USC } ]

InitManual ==
    /\ mr_game \in ScoreboardGames
    /\ manual_df \in UNION { [ 1..n -> ManualFileRows ] : n \in 0..MaxManualRows }
    /\ mr_out = << >>
    /\ mr_pc = "start"

FindManualRow ==
    /\ mr_pc = "start"
    /\ mr_pc' = "done"
    /\ mr_out' = find_manual_row(mr_game, manual_df)
    /\ UNCHANGED << mr_game, manual_df >>
    /\ UNCHANGED others_manual

-----------------------------------------------------------------------------
(* run_today_with_starters.main.  Confidences are held in hundredths. *)

\* float(cell or 0.0), 0.0 on ValueError (lines 82-89), for the cells tried
float_or_zero(cell) ==
    CASE cell = "" -> 0
      [] cell = "n/a" -> 0
      [] cell = "0.5" -> 50
      [] cell = "0.9" -> 90

\* no --max-games cut
head_all(df, max_games) == df

\* df.head(max_games) when max_games > 0 (lines 71-72)
head(df, max_games) ==
    IF max_games > 0 THEN SubSeq(df, 1, Min(max_games, Len(df))) ELSE df

\* line 90: the row is skipped
below_min(row, min_confidence) ==
    Min(float_or_zero(row.home_starter_confidence),
        float_or_zero(row.away_starter_confidence)) < min_confidence

\* lines 102-129: the project command of row i, which exits with rc
project_step(a, i, rc) ==
    IF a.mode \in { "project", "both" } /\ a.execute
    THEN << [ row |-> i, kind |-> "project", ran |-> TRUE, rc |-> rc ] >>
    ELSE << >>

\* lines 131-155: the simulate command of row i, which exits with rc when
\* the script exists
simulate_step(a, i, rc) ==
    IF a.mode \in { "simulate", "both" } /\ a.execute
    THEN IF ~a.simulate_script_exists
         THEN << [ row |-> i, kind |-> "simulate", ran |-> FALSE, rc |-> 1 ] >>
         ELSE << [ row |-> i, kind |-> "simulate", ran |-> TRUE, rc |-> rc ] >>
    ELSE << >>

\* the number of log entries that count as failures
failures(steps) ==
    Len(SelectSeq(steps, LAMBDA e : ~e.ran \/ e.rc # 0))

commands(a) ==
    (IF a.mode \in { "project", "both" } THEN 1 ELSE 0)
    + (IF a.mode \in { "simulate", "both" } THEN 1 ELSE 0)

MaxBatchRows == 2       \* rows of todays_starters.csv

StarterRows ==
    [ home_starter_confidence : { "", "n/a", "0.5", "0.9" },
      away_starter_confidence : { "", "0.9" } ]

BatchArgs ==
    [ starters_csv_exists : BOOLEAN, mode : { "project", "simulate", "both" },
      execute : BOOLEAN, simulate_script_exists : BOOLEAN,
      max_games : { 0, 1 }, min_confidence : { 0, 60 } ]

ExitCodes == { 0, 1 }

NotExited == << >>      \* main has not returned yet; << rc >> once it has

InitBatch ==
    /\ args \in BatchArgs
    /\ starters_csv \in UNION { [ 1..n -> StarterRows ] : n \in 0..MaxBatchRows }
    /\ batch_pc = "start"
    /\ df_rows = << >>
    /\ batch_i = 1
    /\ n_total = 0
    /\ n_ran = 0
    /\ n_fail = 0
    /\ cmd_log = << >>
    /\ exit_status = NotExited

\* lines 50-79
BatchLoad ==
    /\ batch_pc = "start"
    /\ IF ~args.starters_csv_exists
       THEN /\ exit_status' = << 1 >>
            /\ batch_pc' = "done"
            /\ df_rows' = df_rows
       ELSE /\ df_rows' = head(starters_csv, args.max_games)
            /\ batch_pc' = "loop"
            /\ exit_status' = exit_status
    /\ UNCHANGED << args, starters_csv, batch_i, n_total, n_ran, n_fail, cmd_log >>
    /\ UNCHANGED others_batch

\* the log and the counters after the steps of one row
BatchCount(steps) ==
    /\ cmd_log' = cmd_log \o steps
    /\ n_total' = n_total + commands(args)
    /\ n_ran' = n_ran + Len(SelectSeq(steps, LAMBDA e : e.ran))
    /\ n_fail' = n_fail + failures(steps)

\* lines 81-155: one iteration of the loop; the two commands exit with the
\* codes rc_p and rc_s
BatchRow ==
    /\ batch_pc = "loop"
    /\ batch_i <= Len(df_rows)
    /\ IF below_min(df_rows[batch_i], args.min_confidence)
       THEN UNCHANGED << n_total, n_ran, n_fail, cmd_log >>
       ELSE \E rc_p, rc_s \in ExitCodes :
               BatchCount(project_step(args, batch_i, rc_p)
                          \o simulate_step(args, batch_i, rc_s))
    /\ batch_i' = batch_i + 1
    /\ UNCHANGED << args, starters_csv, df_rows, batch_pc, exit_status >>
    /\ UNCHANGED others_batch

\* lines 157-160
BatchReturn ==
    /\ batch_pc = "loop"
    /\ batch_i > Len(df_rows)
    /\ exit_status' = IF args.execute /\ n_fail # 0 THEN << 1 >> ELSE << 0 >>
    /\ batch_pc' = "done"
    /\ UNCHANGED << args, starters_csv, df_rows, batch_i, n_total, n_ran,
                    n_fail, cmd_log >>
    /\ UNCHANGED others_batch

-----------------------------------------------------------------------------
(* build_games_from_espn (stream_espn_games, main) followed by fit_elo;
   a JSON null is None *)

\* line 59 of stream_espn_games, scored as a home win on equal scores
winner_home_ties_to_home(home_score, away_score) ==
    IF home_score >= away_score THEN 1 ELSE 0

\* line 59: "winner_home": 1 if home_score > away_score else 0
winner_home_of(home_score, away_score) ==
    IF home_score > away_score THEN 1 ELSE 0

\* lines 42-45: the lines that stream_espn_games does not skip
yielded(g) ==
    /\ g.home_team_name # << >>
    /\ g.away_team_name # << >>
    /\ g.home_score # None
    /\ g.away_score # None

\* lines 51-60: the dict yielded for one line
stream_row(g) ==
    [date |-> g.date, home_team_name |-> g.home_team_name,
     away_team_name |-> g.away_team_name,
     home_score |-> g.home_score[1], away_score |-> g.away_score[1],
     winner_home |-> winner_home_of(g.home_score[1], g.away_score[1])]

\* home_t[0] if home_t else None, as read back from the CSV
id_or_nan(t) == IF t = NONE THEN NaN ELSE t[1]

\* main, lines 104-121: one row of games_espn.csv
csv_row(g, reg, n2c) ==
    [date |-> g.date, home_score |-> g.home_score, away_score |-> g.away_score,
     winner_home |-> g.winner_home,
     canonical_home_id |-> id_or_nan(resolve_one(g.home_team_name, reg, n2c)),
     canonical_away_id |-> id_or_nan(resolve_one(g.away_team_name, reg, n2c))]

\* the rows collected by main from one season file
collect_rows(lines, reg) ==
    LET kept == SelectSeq(lines, yielded)
        n2c == build_odds_name_to_canonical(reg)
    IN  [i \in DOMAIN kept |-> csv_row(stream_row(kept[i]), reg, n2c)]

\* the loop of fit_elo over the sorted frame, with the log of its iterations
RECURSIVE fit_rows(_, _, _, _)
fit_rows(rows, rt, ng, log) ==
    IF rows = << >> THEN [ratings |-> rt, n_games |-> ng, log |-> log]
    ELSE LET u == elo_update(rt, ng, Head(rows), DEFAULT_K,
                             DEFAULT_INITIAL * Milli, DEFAULT_HOME_ADVANTAGE * Milli)
         IN  fit_rows(Tail(rows), u.ratings, u.n_games,
                      Append(log, [row |-> Head(rows), r_h |-> u.r_h, r_a |-> u.r_a,
                                   exp_h |-> u.exp_h, after |-> u.ratings]))

MaxEspnLines == 2   \* lines of the season file

EspnRegistry == << TeamPool[1], TeamPool[3] >>
EspnHomeNames == { TeamPool[1].team_name, TeamPool[3].team_name, << >> }
EspnAwayNames == { TeamPool[3].team_name, N_USC }
EspnScores == { None, << 0 >>, << 1 >> }

EspnLine ==
    [date : { 1 }, home_team_name : EspnHomeNames, away_team_name : EspnAwayNames,
     home_score : EspnScores, away_score : EspnScores]

EspnLines == UNION { [1..k -> EspnLine] : k \in 0..MaxEspnLines }

InitGames ==
    /\ espn_lines \in EspnLines
    /\ games_csv = << >>
    /\ gm_pc = "build"
    /\ gm_fit = << >>

\* build_games_from_espn.main: the season file becomes games_espn.csv
GamesBuild ==
    /\ gm_pc = "build"
    /\ games_csv' = collect_rows(espn_lines, EspnRegistry)
    /\ gm_pc' = IF games_csv' = << >> THEN "no_games" ELSE "fit"
    /\ UNCHANGED << espn_lines, gm_fit >>
    /\ UNCHANGED others_games

\* fit_phase1_elo: fit_elo on the CSV
GamesFit ==
    /\ gm_pc = "fit"
    /\ \E fr \in sort_values_date(dropna(games_csv)) :
           gm_fit' = << fit_rows(fr, EmptyDict, EmptyDict, << >>) >>
    /\ gm_pc' = "done"
    /\ UNCHANGED << espn_lines, games_csv >>
    /\ UNCHANGED others_games

-----------------------------------------------------------------------------
(* normalize_text and normalize_team_name applied to their own output *)

MaxWords == 3       \* words of an input string

NormWords ==
    { <<"K","e","n","t">>, <<"S","t",".">>, <<"B","e","a","r","s">>,
      <<"G","a","t","o","r","s">>, <<"&","a","m","p",";">>, <<"A","&","M">> }

\* the input strings: up to MaxWords words separated by one space
NormInputs ==
    { Join(ws) : ws \in UNION { [1..k -> NormWords] : k \in 0..MaxWords } }

NormFunctions == { "normalize_text", "normalize_team_name" }

normalize_with(fn, s) ==
    IF fn = "normalize_text" THEN normalize_text(s) ELSE normalize_team_name(s)

InitNormalize ==
    /\ nz_in \in NormInputs
    /\ nz_fn \in NormFunctions
    /\ nz_once = << >>
    /\ nz_twice = << >>
    /\ nz_pc = "start"

\* the function is applied to the input
NormalizeOnce ==
    /\ nz_pc = "start"
    /\ nz_once' = normalize_with(nz_fn, nz_in)
    /\ nz_pc' = "once"
    /\ UNCHANGED << nz_in, nz_fn, nz_twice >>
    /\ UNCHANGED others_normalize

\* the function is applied to its own result
NormalizeAgain ==
    /\ nz_pc = "once"
    /\ nz_twice' = normalize_with(nz_fn, nz_once)
    /\ nz_pc' = "twice"
    /\ UNCHANGED << nz_in, nz_fn, nz_once >>
    /\ UNCHANGED others_normalize

-----------------------------------------------------------------------------
(* pitcher_model.get_bullpen_workload on the table of build_pitcher_ratings;
   a date is a whole day, the same day in the CSV text and in the Timestamp *)

\* a lookup that takes the team's row of the latest date up to the game date
get_bullpen_workload_latest(canonical_id, game_date, workload) ==
    LET days == { k[2] : k \in { q \in DOMAIN workload :
                                   q[1] = canonical_id /\ q[2] <= game_date } }
        last == CHOOSE d \in days : \A e \in days : e <= d
    IN  IF days = {} THEN << 0, 0 >>
        ELSE << workload[<< canonical_id, last >>].ip_last_1d,
                workload[<< canonical_id, last >>].ip_last_3d >>

\* get_bullpen_workload (lines 70-82): the row of (team, date), or zeros
get_bullpen_workload(canonical_id, game_date, workload) ==
    IF DOMAIN workload = {} THEN << 0, 0 >>
    ELSE IF << canonical_id, game_date >> \in DOMAIN workload
         THEN << workload[<< canonical_id, game_date >>].ip_last_1d,
                 workload[<< canonical_id, game_date >>].ip_last_3d >>
    ELSE << 0, 0 >>

MaxWlLines == 2         \* rows of the pitching lines behind the table

WlDays == 1..3          \* dates of the pitching lines
WlGameDays == 1..4      \* dates a projection is asked for

\* appearances of two innings, by a starter or a reliever
WlLines ==
    { PitchingLine(t, d, st, [ IP |-> << 20 >>, PC |-> << 30 >> ]) :
        t \in PitchTeams, d \in WlDays, st \in BOOLEAN }

InitWorkload ==
    /\ wl_lines \in UNION { [ 1..n -> WlLines ] : n \in 0..MaxWlLines }
    /\ wl_team \in PitchTeams
    /\ wl_date \in WlGameDays
    /\ wl_table = << >>
    /\ wl_out = << >>
    /\ wl_pc = "build"

\* build_pitcher_ratings.main, lines 83-106: bullpen_workload.csv
WorkloadBuild ==
    /\ wl_pc = "build"
    /\ wl_table' = workload_of(ip_filter(wl_lines), rp_only_of(ip_filter(wl_lines)))
    /\ wl_pc' = "project"
    /\ UNCHANGED << wl_lines, wl_team, wl_date, wl_out >>
    /\ UNCHANGED others_workload

\* project_game.main, lines 85-90: the workload of one side of the game
WorkloadGet ==
    /\ wl_pc = "project"
    /\ wl_out' = get_bullpen_workload(wl_team, wl_date, wl_table)
    /\ wl_pc' = "done"
    /\ UNCHANGED << wl_lines, wl_team, wl_date, wl_table >>
    /\ UNCHANGED others_workload

-----------------------------------------------------------------------------
(* pitcher_model.pitcher_adj_to_elo; RA9 and innings in tenths, the
   adjustment in AdjDen-ths of an Elo point *)

SP_RA9_TO_ELO_SCALE == 15
BP_FATIGUE_PER_IP_LAST_1D == 8      \* 0.08, in hundredths

\* sp_adj comes in 900ths (tenths * tenths / 9), bp_adj in 1000ths
AdjDen == 9 * 10 * 10 * 10

\* the adjustment with the sign of the fatigue term reversed
pitcher_adj_fatigue_helps(sp_ra9_home, sp_ra9_away, expected_ip_home, expected_ip_away, ip_last_1d_home, ip_last_1d_away, league_ra9) ==
    LET sp_adj == ((league_ra9 - sp_ra9_home) * expected_ip_home
                   - (league_ra9 - sp_ra9_away) * expected_ip_away) * SP_RA9_TO_ELO_SCALE
        bp_adj == (ip_last_1d_home - ip_last_1d_away)
                      * BP_FATIGUE_PER_IP_LAST_1D * SP_RA9_TO_ELO_SCALE
    IN  10 * sp_adj + 9 * bp_adj

\* pitcher_adj_to_elo (lines 85-104)
pitcher_adj_to_elo(sp_ra9_home, sp_ra9_away, expected_ip_home, expected_ip_away, ip_last_1d_home, ip_last_1d_away, league_ra9) ==
    LET sp_adj == ((league_ra9 - sp_ra9_home) * expected_ip_home
                   - (league_ra9 - sp_ra9_away) * expected_ip_away) * SP_RA9_TO_ELO_SCALE
        bp_adj == (ip_last_1d_away - ip_last_1d_home)
                      * BP_FATIGUE_PER_IP_LAST_1D * SP_RA9_TO_ELO_SCALE
    IN  10 * sp_adj + 9 * bp_adj

\* the call of win_prob_with_pitchers on one record of arguments
adj_of(a) ==
    pitcher_adj_to_elo(a.sp_ra9_home, a.sp_ra9_away, a.expected_ip_home,
                       a.expected_ip_away, a.ip_last_1d_home, a.ip_last_1d_away,
                       LEAGUE_RA9_DEFAULT)

MaxStep == 2            \* the largest change of one argument, in tenths

Ra9Values == { 30, 55, 70 }
ExpectedIpValues == { 0, 50, 60 }
Ip1dValues == { 0, 10, 30 }

AdjArgs ==
    [sp_ra9_home : Ra9Values, sp_ra9_away : Ra9Values,
     expected_ip_home : ExpectedIpValues, expected_ip_away : ExpectedIpValues,
     ip_last_1d_home : Ip1dValues, ip_last_1d_away : Ip1dValues]

AdjChanges == { "swap", "more_ip_1d_home", "more_ip_1d_away", "lower_ra9_home" }

\* the arguments of the second call: the first ones with one change
changed(a, how, step) ==
    IF how = "swap"
    THEN [sp_ra9_home |-> a.sp_ra9_away, sp_ra9_away |-> a.sp_ra9_home,
          expected_ip_home |-> a.expected_ip_away, expected_ip_away |-> a.expected_ip_home,
          ip_last_1d_home |-> a.ip_last_1d_away, ip_last_1d_away |-> a.ip_last_1d_home]
    ELSE IF how = "more_ip_1d_home"
    THEN [a EXCEPT !.ip_last_1d_home = @ + step]
    ELSE IF how = "more_ip_1d_away"
    THEN [a EXCEPT !.ip_last_1d_away = @ + step]
    ELSE [a EXCEPT !.sp_ra9_home = @ - step]

InitAdjust ==
    /\ adj_args \in AdjArgs
    /\ adj_how \in AdjChanges
    /\ adj_step \in 1..MaxStep
    /\ adj_first = 0
    /\ adj_second = 0
    /\ adj_pc = "first"

\* the adjustment of the game
AdjustFirst ==
    /\ adj_pc = "first"
    /\ adj_first' = adj_of(adj_args)
    /\ adj_pc' = "second"
    /\ UNCHANGED << adj_args, adj_how, adj_step, adj_second >>
    /\ UNCHANGED others_adjust

\* the adjustment of the game with one argument changed, or the sides swapped
AdjustSecond ==
    /\ adj_pc = "second"
    /\ adj_second' = adj_of(changed(adj_args, adj_how, adj_step))
    /\ adj_pc' = "done"
    /\ UNCHANGED << adj_args, adj_how, adj_step, adj_first >>
    /\ UNCHANGED others_adjust

-----------------------------------------------------------------------------
(* build_todays_starters.infer_probable_starter on a history of starts *)

MaxStartRows == 4       \* rows of the frame of starts

\* the dates a projection is made for: Friday 2026-02-20 and the Tuesday after
InferDays == { GameDay, GameDay + 4 }

\* starts of the home team (a weekly starter, a second pitcher, a row without
\* pitcher id) and one start of the other team
StartPool ==
    { StartRow(HomeCid, KENT_NAME, 1, JOHN_DOE, GameDay - d) : d \in { 28, 21, 14, 7 } }
    \cup { StartRow(HomeCid, KENT_NAME, 2, AL_ROE, GameDay - d) : d \in { 2, 0 } }
    \cup { StartRow(HomeCid, KENT_NAME, NoId, << >>, GameDay - 7),
           StartRow(AwayCid, FLORIDA_NAME, 3, SAM_LEE, GameDay - 7) }

InferKeys == { team_key_of(HomeCid, KENT_NAME), team_key_of(AwayCid, FLORIDA_NAME) }

InitInfer ==
    /\ inf_starts \in UNION { [1..n -> StartPool] : n \in 0..MaxStartRows }
    /\ inf_team_key \in InferKeys
    /\ inf_game_day \in InferDays
    /\ inf_out = NoPick
    /\ inf_pc = "call"

\* main, line 946: infer_probable_starter(team_key, target_date, starts)
InferCall ==
    /\ inf_pc = "call"
    /\ inf_out' = infer_probable_starter(inf_team_key, inf_game_day, inf_starts)
    /\ inf_pc' = "done"
    /\ UNCHANGED << inf_starts, inf_team_key, inf_game_day >>
    /\ UNCHANGED others_infer

-----------------------------------------------------------------------------
(* Specifications: one per program, the others idle *)

IDLE == << "idle" >>

IdleResolve ==
    /\ canonical = << >>
    /\ name_to_canonical = << >>
    /\ canonical_name_index = << >>
    /\ team_name = << >>
    /\ res_starters = IDLE
    /\ res_starters2 = IDLE
    /\ res_odds = IDLE

IdleElo ==
    /\ games = << >>
    /\ sorted_games = << >>
    /\ elo_pc = "idle"
    /\ row_i = 0
    /\ ratings = EmptyDict
    /\ n_games = EmptyDict
    /\ elo_log = << >>

IdleStarters ==
    /\ game = << >>
    /\ st_pc = "idle"
    /\ home_pick = NoPick
    /\ away_pick = NoPick
    /\ pick_log = << >>
    /\ out_rows = << >>

IdleBlend ==
    /\ bl_in = << >>
    /\ bl_out = [by |-> "idle"]

IdleRegistry ==
    /\ ncaa = << >>
    /\ crosswalk = << >>
    /\ merged = << >>
    /\ out_csv = NoFile
    /\ reg_pc = "idle"

IdleProject ==
    /\ pj_in = << >>
    /\ pj_game = IDLE
    /\ pj_compare = IDLE

IdlePitchers ==
    /\ pitching_lines = << >>
    /\ pr_pc = "idle"
    /\ pitcher_ratings = << >>
    /\ team_pitcher_strength = << >>
    /\ bullpen_workload = << >>

IdleSpRating ==
    /\ sp_in = << >>
    /\ sp_out = IDLE

IdleManual ==
    /\ mr_game = << >>
    /\ manual_df = << >>
    /\ mr_out = << >>
    /\ mr_pc = "idle"

IdleBatch ==
    /\ args = << >>
    /\ starters_csv = << >>
    /\ batch_pc = "idle"
    /\ df_rows = << >>
    /\ batch_i = 0
    /\ n_total = 0
    /\ n_ran = 0
    /\ n_fail = 0
    /\ cmd_log = << >>
    /\ exit_status = NotExited

IdleGames ==
    /\ espn_lines = << >>
    /\ games_csv = << >>
    /\ gm_pc = "idle"
    /\ gm_fit = << >>

IdleNormalize ==
    /\ nz_in = << >>
    /\ nz_fn = "idle"
    /\ nz_once = << >>
    /\ nz_twice = << >>
    /\ nz_pc = "idle"

IdleWorkload ==
    /\ wl_lines = << >>
    /\ wl_team = ""
    /\ wl_date = 0
    /\ wl_table = << >>
    /\ wl_out = << >>
    /\ wl_pc = "idle"

IdleAdjust ==
    /\ adj_args = << >>
    /\ adj_how = "idle"
    /\ adj_step = 0
    /\ adj_first = 0
    /\ adj_second = 0
    /\ adj_pc = "idle"

IdleInfer ==
    /\ inf_starts = << >>
    /\ inf_team_key = << >>
    /\ inf_game_day = 0
    /\ inf_out = NoPick
    /\ inf_pc = "idle"

NextResolve == ResolveStarters \/ ResolveStartersAgain \/ ResolveOdds

NextElo == EloLoad \/ EloStep \/ EloReturn

NextStarters ==
    ManualTier \/ D1Tier \/ SummaryTier \/ InferTier \/ UnknownTier \/ PostResolve

NextBlend == BlendCall \/ ProjectGameBlend

NextRegistry ==
    \/ RegistryMerge
    \/ RegistryValidate
    \/ RegistryWrite

NextProject ==
    \/ ProjectGame
    \/ OddsCompare

NextPitchers ==
    \/ BuildPitcherRatings

NextSpRating ==
    \/ GetSpRating

NextManual ==
    \/ FindManualRow

NextBatch ==
    \/ BatchLoad
    \/ BatchRow
    \/ BatchReturn

NextGames ==
    \/ GamesBuild
    \/ GamesFit

NextNormalize ==
    \/ NormalizeOnce
    \/ NormalizeAgain

NextWorkload ==
    \/ WorkloadBuild
    \/ WorkloadGet

NextAdjust ==
    \/ AdjustFirst
    \/ AdjustSecond

NextInfer ==
    \/ InferCall

InitResolveOnly ==
    /\ InitResolve
    /\ IdleElo
    /\ IdleStarters
    /\ IdleBlend
    /\ IdleRegistry
    /\ IdleProject
    /\ IdlePitchers
    /\ IdleSpRating
    /\ IdleManual
    /\ IdleBatch
    /\ IdleGames
    /\ IdleNormalize
    /\ IdleWorkload
    /\ IdleAdjust
    /\ IdleInfer
InitEloOnly ==
    /\ IdleResolve
    /\ InitElo
    /\ IdleStarters
    /\ IdleBlend
    /\ IdleRegistry
    /\ IdleProject
    /\ IdlePitchers
    /\ IdleSpRating
    /\ IdleManual
    /\ IdleBatch
    /\ IdleGames
    /\ IdleNormalize
    /\ IdleWorkload
    /\ IdleAdjust
    /\ IdleInfer
InitStartersOnly ==
    /\ IdleResolve
    /\ IdleElo
    /\ InitStarters
    /\ IdleBlend
    /\ IdleRegistry
    /\ IdleProject
    /\ IdlePitchers
    /\ IdleSpRating
    /\ IdleManual
    /\ IdleBatch
    /\ IdleGames
    /\ IdleNormalize
    /\ IdleWorkload
    /\ IdleAdjust
    /\ IdleInfer
InitBlendOnly ==
    /\ IdleResolve
    /\ IdleElo
    /\ IdleStarters
    /\ InitBlend
    /\ IdleRegistry
    /\ IdleProject
    /\ IdlePitchers
    /\ IdleSpRating
    /\ IdleManual
    /\ IdleBatch
    /\ IdleGames
    /\ IdleNormalize
    /\ IdleWorkload
    /\ IdleAdjust
    /\ IdleInfer
InitRegistryOnly ==
    /\ IdleResolve
    /\ IdleElo
    /\ IdleStarters
    /\ IdleBlend
    /\ InitRegistry
    /\ IdleProject
    /\ IdlePitchers
    /\ IdleSpRating
    /\ IdleManual
    /\ IdleBatch
    /\ IdleGames
    /\ IdleNormalize
    /\ IdleWorkload
    /\ IdleAdjust
    /\ IdleInfer
InitProjectOnly ==
    /\ IdleResolve
    /\ IdleElo
    /\ IdleStarters
    /\ IdleBlend
    /\ IdleRegistry
    /\ InitProject
    /\ IdlePitchers
    /\ IdleSpRating
    /\ IdleManual
    /\ IdleBatch
    /\ IdleGames
    /\ IdleNormalize
    /\ IdleWorkload
    /\ IdleAdjust
    /\ IdleInfer
InitPitchersOnly ==
    /\ IdleResolve
    /\ IdleElo
    /\ IdleStarters
    /\ IdleBlend
    /\ IdleRegistry
    /\ IdleProject
    /\ InitPitchers
    /\ IdleSpRating
    /\ IdleManual
    /\ IdleBatch
    /\ IdleGames
    /\ IdleNormalize
    /\ IdleWorkload
    /\ IdleAdjust
    /\ IdleInfer
InitSpRatingOnly ==
    /\ IdleResolve
    /\ IdleElo
    /\ IdleStarters
    /\ IdleBlend
    /\ IdleRegistry
    /\ IdleProject
    /\ IdlePitchers
    /\ InitSpRating
    /\ IdleManual
    /\ IdleBatch
    /\ IdleGames
    /\ IdleNormalize
    /\ IdleWorkload
    /\ IdleAdjust
    /\ IdleInfer
InitManualOnly ==
    /\ IdleResolve
    /\ IdleElo
    /\ IdleStarters
    /\ IdleBlend
    /\ IdleRegistry
    /\ IdleProject
    /\ IdlePitchers
    /\ IdleSpRating
    /\ InitManual
    /\ IdleBatch
    /\ IdleGames
    /\ IdleNormalize
    /\ IdleWorkload
    /\ IdleAdjust
    /\ IdleInfer
InitBatchOnly ==
    /\ IdleResolve
    /\ IdleElo
    /\ IdleStarters
    /\ IdleBlend
    /\ IdleRegistry
    /\ IdleProject
    /\ IdlePitchers
    /\ IdleSpRating
    /\ IdleManual
    /\ InitBatch
    /\ IdleGames
    /\ IdleNormalize
    /\ IdleWorkload
    /\ IdleAdjust
    /\ IdleInfer
InitGamesOnly ==
    /\ IdleResolve
    /\ IdleElo
    /\ IdleStarters
    /\ IdleBlend
    /\ IdleRegistry
    /\ IdleProject
    /\ IdlePitchers
    /\ IdleSpRating
    /\ IdleManual
    /\ IdleBatch
    /\ InitGames
    /\ IdleNormalize
    /\ IdleWorkload
    /\ IdleAdjust
    /\ IdleInfer
InitNormalizeOnly ==
    /\ IdleResolve
    /\ IdleElo
    /\ IdleStarters
    /\ IdleBlend
    /\ IdleRegistry
    /\ IdleProject
    /\ IdlePitchers
    /\ IdleSpRating
    /\ IdleManual
    /\ IdleBatch
    /\ IdleGames
    /\ InitNormalize
    /\ IdleWorkload
    /\ IdleAdjust
    /\ IdleInfer
InitResolveExactOnly ==
    /\ InitResolveExact
    /\ IdleElo
    /\ IdleStarters
    /\ IdleBlend
    /\ IdleRegistry
    /\ IdleProject
    /\ IdlePitchers
    /\ IdleSpRating
    /\ IdleManual
    /\ IdleBatch
    /\ IdleGames
    /\ IdleNormalize
    /\ IdleWorkload
    /\ IdleAdjust
    /\ IdleInfer
InitWorkloadOnly ==
    /\ IdleResolve
    /\ IdleElo
    /\ IdleStarters
    /\ IdleBlend
    /\ IdleRegistry
    /\ IdleProject
    /\ IdlePitchers
    /\ IdleSpRating
    /\ IdleManual
    /\ IdleBatch
    /\ IdleGames
    /\ IdleNormalize
    /\ InitWorkload
    /\ IdleAdjust
    /\ IdleInfer
InitAdjustOnly ==
    /\ IdleResolve
    /\ IdleElo
    /\ IdleStarters
    /\ IdleBlend
    /\ IdleRegistry
    /\ IdleProject
    /\ IdlePitchers
    /\ IdleSpRating
    /\ IdleManual
    /\ IdleBatch
    /\ IdleGames
    /\ IdleNormalize
    /\ IdleWorkload
    /\ InitAdjust
    /\ IdleInfer
InitInferOnly ==
    /\ IdleResolve
    /\ IdleElo
    /\ IdleStarters
    /\ IdleBlend
    /\ IdleRegistry
    /\ IdleProject
    /\ IdlePitchers
    /\ IdleSpRating
    /\ IdleManual
    /\ IdleBatch
    /\ IdleGames
    /\ IdleNormalize
    /\ IdleWorkload
    /\ IdleAdjust
    /\ InitInfer

SpecResolve == InitResolveOnly /\ [][NextResolve]_vars
SpecResolveExact == InitResolveExactOnly /\ [][NextResolve]_vars
SpecElo == InitEloOnly /\ [][NextElo]_vars
SpecStarters == InitStartersOnly /\ [][NextStarters]_vars
SpecBlend == InitBlendOnly /\ [][NextBlend]_vars
SpecRegistry == InitRegistryOnly /\ [][NextRegistry]_vars
SpecProject == InitProjectOnly /\ [][NextProject]_vars
SpecPitchers == InitPitchersOnly /\ [][NextPitchers]_vars
SpecSpRating == InitSpRatingOnly /\ [][NextSpRating]_vars
SpecManual == InitManualOnly /\ [][NextManual]_vars
SpecBatch == InitBatchOnly /\ [][NextBatch]_vars
SpecGames == InitGamesOnly /\ [][NextGames]_vars
SpecNormalize == InitNormalizeOnly /\ [][NextNormalize]_vars
SpecWorkload == InitWorkloadOnly /\ [][NextWorkload]_vars
SpecAdjust == InitAdjustOnly /\ [][NextAdjust]_vars
SpecInfer == InitInferOnly /\ [][NextInfer]_vars

\* the statements of main run one after the other and every command that
\* subprocess.run starts exits
SpecBatchFair == SpecBatch /\ WF_vars(NextBatch)

Init == InitResolveOnly \/ InitEloOnly \/ InitStartersOnly \/ InitBlendOnly
    \/ InitRegistryOnly \/ InitProjectOnly \/ InitPitchersOnly
    \/ InitSpRatingOnly \/ InitManualOnly \/ InitBatchOnly \/ InitGamesOnly
    \/ InitNormalizeOnly \/ InitWorkloadOnly \/ InitAdjustOnly
    \/ InitInferOnly

Next == NextResolve \/ NextElo \/ NextStarters \/ NextBlend \/ NextRegistry
    \/ NextProject \/ NextPitchers \/ NextSpRating \/ NextManual
    \/ NextBatch \/ NextGames \/ NextNormalize \/ NextWorkload \/ NextAdjust
    \/ NextInfer

Spec == Init /\ [][Next]_vars

-----------------------------------------------------------------------------
(* Properties of the two resolvers (SpecResolve) *)

\* the result a resolver gives for the registry row i
IdOf(i) == << canonical[i].canonical_id, canonical[i].ncaa_teams_id >>

\* a is a proper token-prefix of b
TokenPrefix(a, b) ==
    /\ Len(Split(a)) < Len(Split(b))
    /\ SubSeq(Split(b), 1, Len(Split(a))) = Split(a)

\* the name being resolved is a curated alias of some team
NameIsAlias == normalize_for_match(team_name) \in DOMAIN name_to_canonical

\* C1: a name whose normalized form is a curated alias (odds_api_name) of
\* team T is resolved to T by resolve_team_name_to_canonical and by
\* resolve_odds_teams, whatever the automatic rules would return
C1_AliasAlwaysWins ==
    NameIsAlias =>
        /\ res_starters # PENDING =>
               res_starters = name_to_canonical[normalize_for_match(team_name)]
        /\ res_odds # PENDING =>
               res_odds = name_to_canonical[normalize_for_match(team_name)]

\* C9: two runs of resolve_team_name_to_canonical on the same name and the
\* same registry return the same canonical id, whatever the order in which
\* the set of name variants is enumerated
C9_SameResultInEveryRun ==
    (res_starters # PENDING /\ res_starters2 # PENDING) => res_starters = res_starters2

\* C10: when team A's name is a proper token-prefix of team B's, resolving
\* B's name never returns A, and returns B when no third team's name extends
\* B's; in resolve_team_name_to_canonical and in resolve_odds_teams
C10_LongerNameNotShadowed ==
    \A a, b \in DOMAIN canonical :
        (TokenPrefix(canonical[a].team_name, canonical[b].team_name)
         /\ team_name = canonical[b].team_name) =>
            /\ res_starters # PENDING => res_starters # IdOf(a)
            /\ res_odds # PENDING => res_odds # IdOf(a)
            /\ (\A c \in DOMAIN canonical :
                    ~TokenPrefix(canonical[b].team_name, canonical[c].team_name)) =>
                   /\ res_starters # PENDING => res_starters = IdOf(b)
                   /\ res_odds # PENDING => res_odds = IdOf(b)

-----------------------------------------------------------------------------
(* Properties of fit_elo (SpecElo) *)

RECURSIVE SumOf(_, _)
SumOf(f, S) ==
    IF S = {} THEN 0
    ELSE LET x == CHOOSE y \in S : TRUE IN f[x] + SumOf(f, S \ { x })

\* the rating of team t when the update e began
RatingBefore(e, t) ==
    IF t \in DOMAIN e.before THEN e.before[t] ELSE DEFAULT_INITIAL * Milli

\* rows of the input frame with both sides resolved, and those of team t
ResolvedGames ==
    { i \in DOMAIN games :
        games[i].canonical_home_id # NaN /\ games[i].canonical_away_id # NaN }
GamesOf(t) ==
    { i \in ResolvedGames :
        games[i].canonical_home_id = t \/ games[i].canonical_away_id = t }

\* C2: for every processed game both new ratings come from the pair read
\* before either is written, the home team's rating change is the negative
\* of the away team's, and so the ratings always sum to the initial rating
\* times the number of teams in the map
C2_ZeroSumAndConserved ==
    /\ \A i \in DOMAIN elo_log :
         LET e == elo_log[i]
             h == e.row.canonical_home_id
             a == e.row.canonical_away_id
         IN  /\ e.r_h = RatingBefore(e, h)
             /\ e.r_a = RatingBefore(e, a)
             /\ e.after[h] - RatingBefore(e, h) = -(e.after[a] - RatingBefore(e, a))
    /\ SumOf(ratings, DOMAIN ratings)
         = DEFAULT_INITIAL * Milli * Cardinality(DOMAIN ratings)

\* C3: after fit_elo each team's n_games is the number of fully resolved
\* games it appears in (one write of its rating per game), and a game with
\* an unresolved side changes nothing and creates no entry
C3_GamesCountedOnce ==
    elo_pc = "done" =>
        /\ Len(elo_log) = Cardinality(ResolvedGames)
        /\ DOMAIN ratings = { t \in TeamIds : GamesOf(t) # {} }
        /\ DOMAIN n_games = DOMAIN ratings
        /\ \A t \in DOMAIN n_games : n_games[t] = Cardinality(GamesOf(t))

\* C4: the updates are applied in non-decreasing date order, whatever the
\* order of the input rows
C4_UpdatesInDateOrder ==
    \A i, j \in DOMAIN elo_log : i < j => elo_log[i].row.date <= elo_log[j].row.date

\* the input rows are out of date order and every one of them has been applied
C4_Witness ==
    /\ Len(games) >= 2
    /\ games[1].date > games[2].date
    /\ Len(elo_log) = Len(games)

-----------------------------------------------------------------------------
(* Properties of the evidence ladder (SpecStarters) *)

Sides == { "home", "away" }
TierOrder == << "manual", "d1", "summary", "infer", "unknown" >>
ManualSources == { "manual", "manual_name_matched", "manual_unresolved_name" }

\* the source tags of the picks of a tier
TierSources(tier) ==
    CASE tier = "manual" -> ManualSources
      [] tier = "d1" -> { "d1_lineup_today" }
      [] tier = "summary" -> { "espn_summary" }
      [] tier = "infer" -> { "inferred_rotation" }
      [] tier = "unknown" -> { "unknown" }

KeyOf(side) == IF side = "home" THEN home_team_key ELSE away_team_key
FinalPick(side) == IF side = "home" THEN home_pick ELSE away_pick

\* the tier has a pick for the side, whether or not an earlier tier had one
Produces(tier, side) ==
    CASE tier = "manual" ->
           /\ game.man.present
           /\ make_pick_from_manual_side(game.man, side, KeyOf(side), game.starts) # NoPick
      [] tier = "d1" -> game.use_d1 /\ d1_tier_pick(side) # NoPick
      [] tier = "summary" ->
           /\ game.use_summary
           /\ game.status \notin SCHEDULED_STATUSES
           /\ summary_tier_pick(side) # NoPick
      [] tier = "infer" ->
           infer_probable_starter(KeyOf(side), game.game_day, game.starts) # NoPick
      [] tier = "unknown" -> TRUE

FirstTier(side) ==
    TierOrder[CHOOSE i \in DOMAIN TierOrder :
                /\ Produces(TierOrder[i], side)
                /\ \A j \in 1..(i - 1) : ~Produces(TierOrder[j], side)]

\* the manual row names a pitcher (id or name) for the side
ManualNames(side) ==
    /\ game.man.present
    /\ IF side = "home"
       THEN game.man.home_pitcher_espn_id # NoId \/ game.man.home_pitcher_name # << >>
       ELSE game.man.away_pitcher_espn_id # NoId \/ game.man.away_pitcher_name # << >>

\* the assignments made to the pick of a side, in order
SideLog(side) == SelectSeq(pick_log, LAMBDA e : e.side = side)

\* C5: the final source of each side is that of the first tier (manual, D1,
\* ESPN summary, inference, unknown) that has a pick for it; once a tier has
\* set the pick no later tier replaces it (only the closing id resolution
\* fills the id of a name-only pick, keeping the source); and a pitcher
\* named by the manual row gives one of the three manual sources
C5_FirstTierWins ==
    \A side \in Sides :
        /\ \A k \in DOMAIN SideLog(side) :
             k > 1 => /\ SideLog(side)[k].tier = "post"
                      /\ SideLog(side)[k].pick.source = SideLog(side)[1].pick.source
                      /\ SideLog(side)[k - 1].pick.espn_id = NoId
                      /\ SideLog(side)[k - 1].pick.name # << >>
        /\ st_pc = "done" =>
             /\ FinalPick(side).source \in TierSources(FirstTier(side))
             /\ ManualNames(side) => FinalPick(side).source \in ManualSources

\* the manual row names the home pitcher, the three later tiers each have a
\* pick for the home side as well, and the run is over
C5_Witness ==
    /\ st_pc = "done"
    /\ ManualNames("home")
    /\ Produces("d1", "home")
    /\ Produces("summary", "home")
    /\ Produces("infer", "home")
    /\ home_pick.source \in ManualSources

-----------------------------------------------------------------------------
(* Properties of blend_with_market (SpecBlend) *)

Called == bl_out.by \in { "blend_with_market", "project_game" }

\* the market probability lies in (0,1)
MarketInUnit == bl_in.market # None /\ 0 < bl_in.market[1] /\ bl_in.market[1] < Milli

\* the n_games_played the blend is given
NUsed == IF bl_out.by = "project_game" /\ ~bl_in.n_given THEN 0 ELSE bl_in.n

\* max(0.01, min(0.99, x))
Clamp(x) == Max(CLAMP_LO * BlendDen, Min(CLAMP_HI * BlendDen, x))

\* (1 - alpha) * model + alpha * market with alpha = alpha_max * (1 - n / 25)
Mix(model, market, n) ==
    (BlendDen - ALPHA_MAX_TENTHS * (N_GAMES_FULL_MODEL - n)) * model
    + ALPHA_MAX_TENTHS * (N_GAMES_FULL_MODEL - n) * market

\* C6 as stated: with n_games >= 25, a market probability in (0,1) and a
\* model probability in (0,1), the blend returns the model probability
\* unchanged, and 1 minus it for away
C6_ModelUnchanged ==
    (Called /\ NUsed >= N_GAMES_FULL_MODEL /\ MarketInUnit
     /\ 0 < bl_in.model /\ bl_in.model < Milli) =>
        /\ bl_out.p.home = bl_in.model * BlendDen
        /\ bl_out.p.away = (Milli - bl_in.model) * BlendDen

\* C6 amended: with n_games >= 25 and a market probability in (0,1) the
\* blend returns the model probability clamped to [0.01, 0.99], which is the
\* model probability itself when that lies in [0.01, 0.99]
C6_ModelClamped ==
    (Called /\ NUsed >= N_GAMES_FULL_MODEL /\ MarketInUnit
     /\ 0 < bl_in.model /\ bl_in.model < Milli) =>
        /\ bl_out.p.home = Clamp(bl_in.model * BlendDen)
        /\ bl_out.p.away = Milli * BlendDen - bl_out.p.home
        /\ (CLAMP_LO <= bl_in.model /\ bl_in.model <= CLAMP_HI) =>
               bl_out.p.home = bl_in.model * BlendDen

\* a model probability above 0.99 has gone through the blend at 25 games or
\* more and has come out as 0.99
C6_Witness ==
    /\ bl_out.by = "blend_with_market"
    /\ bl_in.n >= N_GAMES_FULL_MODEL
    /\ MarketInUnit
    /\ bl_in.model > CLAMP_HI
    /\ bl_in.model < Milli
    /\ bl_out.p.home = CLAMP_HI * BlendDen

\* C7 as stated: for 0 <= n_games <= 25 and a market probability in (0,1)
\* the result is (1 - alpha) * model + alpha * market with
\* alpha = alpha_max * (1 - n_games / 25); 0.55 and 0.70 give 0.64 at 0
\* games; the weight on the market never increases with n_games
C7_MarketWeight ==
    /\ (Called /\ 0 <= NUsed /\ NUsed <= N_GAMES_FULL_MODEL /\ MarketInUnit) =>
           bl_out.p.home = Mix(bl_in.model, bl_in.market[1], NUsed)
    /\ (Called /\ NUsed = 0 /\ bl_in.model = 550 /\ bl_in.market = << 700 >>) =>
           bl_out.p.home = 640 * BlendDen
    /\ \A n \in 0..(N_GAMES_FULL_MODEL - 1) : AlphaNum(n + 1) <= AlphaNum(n)

\* C7 amended: the result is that mix clamped to [0.01, 0.99]
C7_MarketWeightClamped ==
    /\ (Called /\ 0 <= NUsed /\ NUsed <= N_GAMES_FULL_MODEL /\ MarketInUnit) =>
           /\ bl_out.p.home = Clamp(Mix(bl_in.model, bl_in.market[1], NUsed))
           /\ bl_out.p.away = Milli * BlendDen - bl_out.p.home
    /\ (Called /\ NUsed = 0 /\ bl_in.model = 550 /\ bl_in.market = << 700 >>) =>
           bl_out.p.home = 640 * BlendDen
    /\ \A n \in 0..(N_GAMES_FULL_MODEL - 1) : AlphaNum(n + 1) <= AlphaNum(n)

\* model 0.55 and market 0.70 have been blended at 0 games into 0.64
C7_Witness ==
    /\ bl_out.by = "blend_with_market"
    /\ bl_in.n = 0
    /\ bl_in.model = 550
    /\ bl_in.market = << 700 >>
    /\ bl_out.p.home = 640 * BlendDen

\* C8: when the market probability is None, <= 0 or >= 1 the result is
\* exactly (model, 1 - model), not blended and not clamped, for every n_games
C8_SkipReturnsModel ==
    (Called /\ ~MarketInUnit) =>
        /\ bl_out.p.home = bl_in.model * BlendDen
        /\ bl_out.p.away = (Milli - bl_in.model) * BlendDen

\* blend_with_market has been called without a market probability for a
\* model probability outside [0.01, 0.99]
C8_Witness ==
    /\ bl_out.by = "blend_with_market"
    /\ bl_in.market = None
    /\ bl_in.model > CLAMP_HI
    /\ bl_out.p.home = bl_in.model * BlendDen

-----------------------------------------------------------------------------
(* Properties of the registry build (SpecRegistry) *)

CanonicalIds(rows) == { rows[i].canonical_id : i \in DOMAIN rows }

\* the canonical_team_id cells the crosswalk holds for one NCAA id
CrosswalkCells(id) ==
    { crosswalk.rows[j].canonical_team_id : j \in
        { j \in DOMAIN crosswalk.rows :
            crosswalk.has_canon /\ crosswalk.rows[j].ncaa_teams_id = id } }

FromCrosswalk(row) ==
    \E cell \in CrosswalkCells(row.ncaa_teams_id) :
        cell # NA /\ strip(cell) = row.canonical_id

IsDefaultId(row) ==
    row.canonical_id = NCAA_PREFIX \o astype_str(row.ncaa_teams_id)

\* C11: the registry file is written only when the NCAA list has no
\* duplicate ncaa_teams_id and the merged output has no duplicate
\* canonical_id; a run that aborts has written nothing; every row written
\* has a non-blank canonical_id, the crosswalk's id or NCAA_<id>.
C11_WrittenOnlyWhenValid ==
    /\ reg_pc = "abort" => out_csv = NoFile
    /\ out_csv.written =>
         /\ Cardinality({ ncaa[i].ncaa_teams_id : i \in DOMAIN ncaa })
              = Len(ncaa)
         /\ Len(out_csv.rows) = Len(ncaa)
         /\ Cardinality(CanonicalIds(out_csv.rows)) = Len(out_csv.rows)
         /\ \A i \in DOMAIN out_csv.rows :
               /\ out_csv.rows[i].ncaa_teams_id = ncaa[i].ncaa_teams_id
               /\ strip(out_csv.rows[i].canonical_id) # << >>
               /\ FromCrosswalk(out_csv.rows[i])
                    \/ IsDefaultId(out_csv.rows[i])

\* a file written with one id taken from the crosswalk and one defaulted,
\* the crosswalk also holding a blank cell and a repeated id
C11_Witness ==
    /\ out_csv.written
    /\ \E i, j \in DOMAIN out_csv.rows :
          /\ FromCrosswalk(out_csv.rows[i]) /\ ~IsDefaultId(out_csv.rows[i])
          /\ IsDefaultId(out_csv.rows[j])
          /\ << " " >> \in CrosswalkCells(out_csv.rows[j].ncaa_teams_id)

-----------------------------------------------------------------------------
(* Properties of the projection paths (SpecProject) *)

RatingOrInitial(id) ==
    IF id \in DOMAIN pj_in.ratings THEN pj_in.ratings[id]
    ELSE 1500 * Milli

EloOfGame(adv) ==
    win_prob_from_elo(RatingOrInitial(pj_in.home_id),
                      RatingOrInitial(pj_in.away_id), adv)

OneAbsentOtherFitted ==
    (pj_in.home_id \in DOMAIN pj_in.ratings)
        # (pj_in.away_id \in DOMAIN pj_in.ratings)

\* C12: in both projection paths a resolved team absent from the ratings
\* map counts as Elo 1500 and the Elo formula is applied with the other
\* team's fitted rating.
C12_MissingTeamIsInitial ==
    OneAbsentOtherFitted =>
        /\ pj_game # PENDING =>
             pj_game = EloOfGame(IF pj_in.neutral THEN 0 ELSE 30 * Milli)
        /\ pj_compare # PENDING => pj_compare = EloOfGame(30 * Milli)

-----------------------------------------------------------------------------
(* Properties of the pitcher tables (SpecPitchers) *)

\* the lines of one team's relievers dated before d
OwnReliefBefore(team, d) ==
    SelectSeq(pitching_lines,
              LAMBDA r : r.canonical_id = team /\ ~r.starter /\ r.game_date < d)

\* the workload row the program computes when it is given those lines only
RowFrom(lines, team, d) ==
    workload_row(ip_filter(lines), rp_only_of(ip_filter(lines)), team, d)

\* C13: every bullpen-workload row (team, D) is a function of that team's
\* relief appearances dated strictly before D alone: no appearance on D or
\* later, no start and no other team's appearance changes any of
\* ip_last_1d, ip_last_3d, pc_last_1d.
C13_OnlyOwnReliefBefore ==
    pr_pc = "done" =>
        \A key \in DOMAIN bullpen_workload :
            bullpen_workload[key]
                = RowFrom(OwnReliefBefore(key[1], key[2]), key[1], key[2])

\* a row that counts the team's own relief outing of the day before, while
\* the other team's row of that date counts nothing of it
C13_Witness ==
    /\ pr_pc = "done"
    /\ \E k1, k2 \in DOMAIN bullpen_workload :
          /\ k1[2] = k2[2] /\ k1[1] # k2[1]
          /\ bullpen_workload[k1].ip_last_1d > 0
          /\ bullpen_workload[k1].pc_last_1d > 0
          /\ bullpen_workload[k2].ip_last_3d = 0

\* relief innings of a team on the dates strictly between d - 3 and d
OpenWindowInnings(team, d) ==
    column_sum(SelectSeq(pitching_lines,
                         LAMBDA r : /\ r.canonical_id = team /\ ~r.starter
                                    /\ r.game_date > d - 3 /\ r.game_date < d),
               "IP")

\* C14: ip_last_3d of (team, D) is the sum of the team's relief innings on
\* the dates strictly after D-3 and strictly before D; an appearance dated
\* exactly three days before D is not counted.
C14_OpenThreeDayWindow ==
    pr_pc = "done" =>
        \A key \in DOMAIN bullpen_workload :
            bullpen_workload[key].ip_last_3d
                = OpenWindowInnings(key[1], key[2])

\* the lines whose innings pitched exceed 0.1
OverOneOut == SelectSeq(pitching_lines, LAMBDA r : fillna0(r.IP) > 1)

\* C15: an appearance with innings pitched exactly 0.1, less, or missing
\* contributes to no aggregate: the three tables are those of the lines
\* with more than 0.1 innings.
C15_OnlyOverOneOut ==
    pr_pc = "done" =>
        /\ pitcher_ratings = pitcher_ratings_of(OverOneOut)
        /\ team_pitcher_strength = team_strength_of(OverOneOut)
        /\ bullpen_workload = workload_of(OverOneOut, rp_only_of(OverOneOut))

-----------------------------------------------------------------------------
(* Properties of get_sp_rating (SpecSpRating) *)

\* the starter is named and the ratings table has no SP row of his for this
\* team and season
NamedWithoutSpRow ==
    /\ strip(sp_in.pitcher_espn_id) # << >>
    /\ \A i \in DOMAIN sp_in.ratings :
          ~ /\ sp_in.ratings[i].pitcher_espn_id = sp_in.pitcher_espn_id
            /\ sp_in.ratings[i].canonical_id = sp_in.canonical_id
            /\ sp_in.ratings[i].season = sp_in.season
            /\ sp_in.ratings[i].role = "SP"

\* C16: for a starter id with no SP rating row, get_sp_rating returns
\* exactly (5.5, 5.0), whether or not the team has a team-strength row.
C16_NoRowGivesLeagueDefault ==
    (sp_out # PENDING /\ NamedWithoutSpRow) => sp_out = << 55, 50 >>

-----------------------------------------------------------------------------
(* Properties of the output row (SpecStarters) *)

EarlierTiers == { "manual", "d1", "summary", "infer" }

RowPick(row, side) ==
    IF side = "home"
    THEN [ espn_id |-> row.home_pitcher_espn_id, name |-> row.home_pitcher_name,
           source |-> row.home_starter_source,
           confidence |-> row.home_starter_confidence ]
    ELSE [ espn_id |-> row.away_pitcher_espn_id, name |-> row.away_pitcher_name,
           source |-> row.away_starter_source,
           confidence |-> row.away_starter_confidence ]

\* C17: the game gets exactly one output row, with one pick per side; each
\* confidence lies in [0, 1]; a side for which no tier has a pick gets
\* ('', '', 'unknown', 0.0); and a confidence of 0.0 occurs only with the
\* source 'unknown'.
C17_OneRowWithBothPicks ==
    /\ Len(out_rows) = (IF st_pc = "done" THEN 1 ELSE 0)
    /\ \A i \in DOMAIN out_rows : \A side \in Sides :
          /\ RowPick(out_rows[i], side) = FinalPick(side)
          /\ RowPick(out_rows[i], side).source # "None"
          /\ RowPick(out_rows[i], side).confidence >= 0
          /\ RowPick(out_rows[i], side).confidence <= 100
          /\ (\A tier \in EarlierTiers : ~Produces(tier, side))
                => RowPick(out_rows[i], side)
                     = [ espn_id |-> NoId, name |-> << >>,
                         source |-> "unknown", confidence |-> 0 ]
          /\ RowPick(out_rows[i], side).confidence = 0
                => RowPick(out_rows[i], side).source = "unknown"

\* a row whose home side has no pick from any tier and whose away side has
\* one
C17_Witness ==
    /\ st_pc = "done"
    /\ Len(out_rows) = 1
    /\ \A tier \in EarlierTiers : ~Produces(tier, "home")
    /\ out_rows[1].home_starter_source = "unknown"
    /\ out_rows[1].away_starter_source # "unknown"
    /\ out_rows[1].away_starter_confidence > 0

-----------------------------------------------------------------------------
(* Properties of find_manual_row (SpecManual) *)

CarriesEventId == \E i \in DOMAIN manual_df : manual_df[i].event_id = mr_game.event_id

\* C18: a manual row whose event_id is non-empty and differs from the
\* game's event_id is never returned for the game, and a row is matched by
\* date and teams only when no row carries the game's event id.
C18_OnlyOwnEvent ==
    (mr_pc = "done" /\ mr_out # << >>) =>
        /\ ~ (mr_out[1].event_id # "" /\ mr_out[1].event_id # mr_game.event_id)
        /\ mr_out[1].event_id # mr_game.event_id => ~CarriesEventId

-----------------------------------------------------------------------------
(* Properties of the batch runner (SpecBatchFair) *)

\* the confidence a cell stands for; blank and unparseable cells count as 0
ConfOf(cell) == IF cell = "0.5" THEN 50 ELSE IF cell = "0.9" THEN 90 ELSE 0

PassesFilter(row) ==
    /\ ConfOf(row.home_starter_confidence) >= args.min_confidence
    /\ ConfOf(row.away_starter_confidence) >= args.min_confidence

\* the commands of the rows 1..last that pass the filter, in row order
RECURSIVE CommandsDue(_, _)
CommandsDue(i, last) ==
    IF i > last THEN << >>
    ELSE (IF PassesFilter(starters_csv[i])
          THEN (IF args.mode \in { "project", "both" }
                THEN << << i, "project" >> >> ELSE << >>)
               \o (IF args.mode \in { "simulate", "both" }
                   THEN << << i, "simulate" >> >> ELSE << >>)
          ELSE << >>)
         \o CommandsDue(i + 1, last)

\* the commands main has started or skipped, and those it has started
Attempted == [ k \in DOMAIN cmd_log |-> << cmd_log[k].row, cmd_log[k].kind >> ]

Started(k) == cmd_log[k].ran

FailedOrMissing ==
    \E k \in DOMAIN cmd_log : ~cmd_log[k].ran \/ cmd_log[k].rc # 0

\* the rows --max-games leaves
RowsKept ==
    IF args.max_games > 0 /\ args.max_games < Len(starters_csv)
    THEN args.max_games ELSE Len(starters_csv)

\* every command due is attempted in order, and started unless it is a
\* simulate command whose script is missing
AttemptsAre(due) ==
    /\ Attempted = due
    /\ \A k \in DOMAIN cmd_log :
          Started(k) <=> (cmd_log[k].kind = "project"
                          \/ args.simulate_script_exists)

Exited == batch_pc = "done" /\ args.execute

\* C19 as stated: in execute mode the command of every row that passes the
\* confidence filter is run, in row order, whatever the earlier commands
\* returned; main terminates; and it returns 1 if and only if a command
\* failed or a simulate script was missing.
C19_EveryPassingRowRun ==
    /\ [](Exited =>
            /\ AttemptsAre(CommandsDue(1, Len(starters_csv)))
            /\ exit_status = << 1 >> <=> FailedOrMissing)
    /\ <>(batch_pc = "done")

\* C19, amended: the rows are those --max-games keeps, and a missing
\* starters CSV also gives exit status 1, with no command run.
C19_KeptPassingRowsRun ==
    /\ [](Exited /\ args.starters_csv_exists =>
            /\ AttemptsAre(CommandsDue(1, RowsKept))
            /\ exit_status = << 1 >> <=> FailedOrMissing)
    /\ [](Exited /\ ~args.starters_csv_exists =>
            cmd_log = << >> /\ exit_status = << 1 >>)
    /\ <>(batch_pc = "done")

\* a command of the first row failed, the command of the second row was run
\* all the same, and main returned 1
C19_Witness ==
    /\ Exited
    /\ exit_status = << 1 >>
    /\ \E k, l \in DOMAIN cmd_log :
          /\ cmd_log[k].row < cmd_log[l].row
          /\ cmd_log[k].ran /\ cmd_log[k].rc # 0
          /\ cmd_log[l].ran

-----------------------------------------------------------------------------
(* Same-day order in fit_elo (SpecElo) *)

\* the ratings map fit_elo ends with when its loop runs over rows in order
RECURSIVE RatingsAfter(_, _, _)
RatingsAfter(rt, ng, rows) ==
    IF rows = << >> THEN rt
    ELSE RatingsAfter(
             elo_update(rt, ng, Head(rows), DEFAULT_K, DEFAULT_INITIAL * Milli,
                        DEFAULT_HOME_ADVANTAGE * Milli).ratings,
             elo_update(rt, ng, Head(rows), DEFAULT_K, DEFAULT_INITIAL * Milli,
                        DEFAULT_HOME_ADVANTAGE * Milli).n_games,
             Tail(rows))

\* every game is between two different teams
TwoSidedGames ==
    \A i \in DOMAIN games :
        games[i].canonical_home_id # games[i].canonical_away_id

\* C20: the final ratings map is the same for every ordering of the games
\* that share a date, also when a team plays more than once on that date.
C20_SameDayOrderIrrelevant ==
    (elo_pc = "done" /\ TwoSidedGames) =>
        \A o \in sort_values_date(dropna(games)) :
            RatingsAfter(EmptyDict, EmptyDict, o) = ratings

-----------------------------------------------------------------------------
(* The first game of two unseen teams (SpecElo) *)

\* the frame is one game between two different resolved teams, won by the
\* home team
OneHomeWin ==
    /\ Len(games) = 1
    /\ games[1].canonical_home_id # NaN
    /\ games[1].canonical_away_id # NaN
    /\ games[1].canonical_home_id # games[1].canonical_away_id
    /\ games[1].winner_home = 1

\* C21: with the default parameters, one game between two previously
\* unseen teams won by the home team leaves R_home = 1516 and R_away = 1484.
C21_FirstGameSixteenPoints ==
    (elo_pc = "done" /\ OneHomeWin) =>
        /\ ratings[games[1].canonical_home_id] = 1516 * Milli
        /\ ratings[games[1].canonical_away_id] = 1484 * Milli

-----------------------------------------------------------------------------
(* Tied games (SpecGames) *)

\* a line of the season file that names both teams and carries equal scores
TiedLine(g) == yielded(g) /\ g.home_score = g.away_score

\* a row of the CSV with equal scores
TiedRow(r) == r.home_score = r.away_score

\* the rows of the CSV that fit_elo keeps: both ids resolved
ResolvedRows == SelectSeq(games_csv, LAMBDA r :
                    r.canonical_home_id # NaN /\ r.canonical_away_id # NaN)

\* the iteration of fit_elo scored the away team 1 and the home team 0
FullAwayWin(e) ==
    /\ e.after[e.row.canonical_home_id] = e.r_h - DEFAULT_K * e.exp_h
    /\ e.after[e.row.canonical_away_id] = e.r_a + DEFAULT_K * e.exp_h

\* C30: a game with equal scores is recorded with winner_home = 0 and fit_elo
\* applies the full away-win update to it; no game is left out for being a
\* tie, and none is scored one half.
C30_TieIsAwayWin ==
    /\ gm_pc # "build" =>
         /\ Len(games_csv) = Len(SelectSeq(espn_lines, yielded))
         /\ \A i \in DOMAIN games_csv :
                TiedRow(games_csv[i]) => games_csv[i].winner_home = 0
    /\ gm_pc = "done" =>
         /\ Len(gm_fit[1].log) = Len(ResolvedRows)
         /\ \A i \in DOMAIN gm_fit[1].log :
                LET e == gm_fit[1].log[i]
                IN  (TiedRow(e.row) /\ e.row.canonical_home_id # e.row.canonical_away_id)
                        => FullAwayWin(e)

\* a tied game between two different resolved teams has been fitted
C30_Witness ==
    /\ gm_pc = "done"
    /\ \E i \in DOMAIN espn_lines : TiedLine(espn_lines[i])
    /\ \E i \in DOMAIN gm_fit[1].log :
           /\ TiedRow(gm_fit[1].log[i].row)
           /\ gm_fit[1].log[i].row.canonical_home_id # gm_fit[1].log[i].row.canonical_away_id

-----------------------------------------------------------------------------
(* Idempotence of the normalizers (SpecNormalize) *)

\* C22: normalize_text and normalize_team_name are idempotent: applied to
\* their own output they change nothing, for every input string.
C22_NormalizersIdempotent ==
    nz_pc = "twice" => nz_twice = nz_once

-----------------------------------------------------------------------------
(* Exact match of the normalized name (SpecResolveExact) *)

\* the registry rows whose normalized team_name is the normalized input, under
\* the normalization of each resolver
ExactStarters ==
    { i \in DOMAIN canonical :
        normalize_team_name(canonical[i].team_name) = normalize_team_name(team_name) }
ExactOdds ==
    { i \in DOMAIN canonical :
        normalize_for_match(canonical[i].team_name) = normalize_for_match(team_name) }

IdsOf(i) == << canonical[i].canonical_id, canonical[i].ncaa_teams_id >>

\* C23: when no alias matches and the normalized input equals the normalized
\* team_name of a registry team T, both resolvers return T, even if other
\* teams match through synonym variants or prefix containment.
C23_ExactNameWins ==
    ~NameIsAlias =>
        /\ res_starters # PENDING =>
               \A i \in ExactStarters : ExactStarters = { i } => res_starters = IdsOf(i)
        /\ res_odds # PENDING =>
               \A i \in ExactOdds : ExactOdds = { i } => res_odds = IdsOf(i)


\* C24: on every registry and every name for which resolve_odds_teams and
\* resolve_team_name_to_canonical both return a team, the two return the same
\* canonical id.
C24_ResolversAgree ==
    (res_starters \notin { PENDING, NONE } /\ res_odds \notin { PENDING, NONE })
        => res_starters[1] = res_odds[1]

-----------------------------------------------------------------------------
(* Suffix peeling (SpecResolveExact) *)

\* the candidates of a normalized name, one list per enumeration order of its
\* set of forms
CandidateLists(n) ==
    { DedupByCid(Candidates(canonical_name_index, o)) :
        o \in Orders(team_forms_from_norm(n)) }

HasCandidate(n) == \E c \in CandidateLists(n) : c # << >>

\* the input without its last k words
Peeled(k) ==
    LET toks == Split(normalize_team_name(team_name))
    IN  Join(SubSeq(toks, 1, Len(toks) - k))

PeelLevels == 1..(Len(Split(normalize_team_name(team_name))) - 1)

\* the peeling is reached (no candidate for the full name) and some peeled
\* prefix has a candidate
PeelingFinds ==
    /\ normalize_team_name(team_name) # << >>
    /\ ~HasCandidate(normalize_team_name(team_name))
    /\ \E k \in PeelLevels : HasCandidate(Peeled(k))

\* the longest peeled prefix with a candidate
FirstLevel == CHOOSE k \in PeelLevels :
                  HasCandidate(Peeled(k)) /\ \A j \in 1..(k - 1) : ~HasCandidate(Peeled(j))

\* C25: when the full name has no candidate, the result of
\* resolve_team_name_to_canonical is the one that the variant lookup with the
\* longest-name tie-break gives for the longest peeled prefix that has at
\* least one candidate; a prefix with several candidates is not skipped.
C25_LongestPeeledPrefixWins ==
    (res_starters # PENDING /\ PeelingFinds) =>
        \E c \in CandidateLists(Peeled(FirstLevel)) :
            res_starters = << LongestFirst(c)[1], LongestFirst(c)[2] >>

-----------------------------------------------------------------------------
(* The workload a projection gets (SpecWorkload) *)

\* the table has a row for the side and the date of the game
HasWorkloadRow == << wl_team, wl_date >> \in DOMAIN wl_table

\* no pitching line is recorded on the date of the game
NoGamesThatDay == \A i \in DOMAIN wl_lines : wl_lines[i].game_date # wl_date

\* the side's relief innings of the day before the game
ReliefDayBefore ==
    column_sum(SelectSeq(wl_lines, LAMBDA r :
        r.canonical_id = wl_team /\ ~r.starter /\ r.game_date = wl_date - 1), "IP")

\* C26: get_bullpen_workload returns the stored (ip_last_1d, ip_last_3d) when
\* the table has a row for (team, D) and (0, 0) otherwise; a projection for a
\* date with no recorded games gets zero fatigue even when the team pitched
\* relief on D-1.
C26_WorkloadOnlyOnTableDates ==
    wl_pc = "done" =>
        /\ HasWorkloadRow =>
               wl_out = << wl_table[<< wl_team, wl_date >>].ip_last_1d,
                           wl_table[<< wl_team, wl_date >>].ip_last_3d >>
        /\ ~HasWorkloadRow => wl_out = << 0, 0 >>
        /\ NoGamesThatDay => wl_out = << 0, 0 >>

\* the team pitched relief the day before a date without games and the
\* projection for that date has got zeros
C26_Witness ==
    /\ wl_pc = "done"
    /\ NoGamesThatDay
    /\ ReliefDayBefore > 0
    /\ wl_out = << 0, 0 >>

-----------------------------------------------------------------------------
(* Monotonicity and symmetry of pitcher_adj_to_elo (SpecAdjust) *)

\* both sides have the same starter, expected innings and bullpen workload
EqualSides ==
    /\ adj_args.sp_ra9_home = adj_args.sp_ra9_away
    /\ adj_args.expected_ip_home = adj_args.expected_ip_away
    /\ adj_args.ip_last_1d_home = adj_args.ip_last_1d_away

\* C27: pitcher_adj_to_elo strictly decreases when ip_last_1d_home increases,
\* strictly increases when ip_last_1d_away increases and when the home
\* starter's RA9 decreases (for expected_ip_home > 0); it is zero when both
\* sides have equal inputs, and swapping home and away negates it.
C27_AdjustmentMonotoneAntisymmetric ==
    /\ (adj_pc # "first" /\ EqualSides) => adj_first = 0
    /\ adj_pc = "done" =>
         /\ adj_how = "more_ip_1d_home" => adj_second < adj_first
         /\ adj_how = "more_ip_1d_away" => adj_second > adj_first
         /\ (adj_how = "lower_ra9_home" /\ adj_args.expected_ip_home > 0)
                => adj_second > adj_first
         /\ adj_how = "swap" => adj_second = 0 - adj_first

\* a game with unequal sides has been adjusted, then again with a better
\* home starter
C27_Witness ==
    /\ adj_pc = "done"
    /\ adj_how = "lower_ra9_home"
    /\ adj_args.expected_ip_home > 0
    /\ adj_first # 0
    /\ adj_second > adj_first

-----------------------------------------------------------------------------
(* The rotation inference (SpecInfer) *)

\* the starts of the team with a pitcher id, strictly before the target date
StartsBefore ==
    SelectSeq(inf_starts, LAMBDA r : /\ r.team_key = inf_team_key
                                     /\ r.pitcher_espn_id # NoId
                                     /\ r.game_date < inf_game_day)

\* one candidate per pitcher of those starts
CandidatesBefore ==
    { RotationCandidate(pid, StartsBefore, inf_game_day) :
        pid \in { StartsBefore[i].pitcher_espn_id : i \in DOMAIN StartsBefore } }

\* candidate c is nowhere beaten: no candidate has a lower score, nor the same
\* score with more starts, nor the same score and starts with a shorter rest
Lowest(c) ==
    \A r \in CandidatesBefore :
        /\ r.score >= c.score
        /\ r.score = c.score => r.starts_n <= c.starts_n
        /\ (r.score = c.score /\ r.starts_n = c.starts_n) => r.days_since >= c.days_since

-----------------------------------------------------------------------------
(* A D1 lineup row without a named starter (SpecStarters) *)

D1RowsOf(side) == IF side = "home" THEN game.d1_rows.home ELSE game.d1_rows.away
OpponentOf(side) == IF side = "home" THEN game.away_team_name ELSE game.home_team_name

\* the rows of the side's page for the target date
RowsToday(side) == SelectSeq(D1RowsOf(side), LAMBDA r : r.game_date = game.game_day)

\* the D1 tier looks at the side's page (the tier is on and the manual tier
\* left the side without a pick), and the row it takes for the target date
\* lists a blank or TBD starter
D1ListsTbd(side) ==
    /\ game.use_d1
    /\ ~Produces("manual", side)
    /\ RowsToday(side) # << >>
    /\ LET c == d1_candidates(RowsToday(side), normalize_team_name(OpponentOf(side)))[1]
       IN  c.sp_name = << >> \/ normalize_text(c.sp_name) \in { TBD, TO_BE_DETERMINED }

TbdPick == [ espn_id |-> NoId, name |-> << >>, source |-> "d1_lineup_today",
             confidence |-> 20 ]

\* C29: when the D1 lineup row for the target date lists a blank or TBD
\* starter, the side's pick is (empty id, empty name, d1_lineup_today, 0.20)
\* and it is final: neither the summary tier nor the rotation inference (nor
\* any later step) sets the pick of that side, and the output row carries it.
C29_TbdRowIsFinal ==
    \A side \in Sides :
        D1ListsTbd(side) =>
            /\ st_pc \notin { "manual", "d1" } => FinalPick(side) = TbdPick
            /\ \A k \in DOMAIN SideLog(side) : SideLog(side)[k].tier = "d1"
            /\ st_pc = "done" => RowPick(out_rows[1], side) = TbdPick

\* the home page lists a TBD starter, the summary and the history both have
\* a starter for the home side, and the run has ended with the TBD pick
C29_Witness ==
    /\ st_pc = "done"
    /\ D1ListsTbd("home")
    /\ Produces("summary", "home")
    /\ Produces("infer", "home")
    /\ RowPick(out_rows[1], "home") = TbdPick

====
